---- MODULE Spec2Model ----
(***************************************************************************)
(* Model of the empleados-api server (src/server.js): the effective-dated  *)
(* tax-regime history of the employer, the candidate + documents writer    *)
(* and the filtered candidate list, with the input-normalising middleware  *)
(* that every request passes first.                                        *)
(*                                                                         *)
(* Text is a sequence of one-character strings, so that trimming, case     *)
(* folding and title-casing are computed character by character.  Dates    *)
(* are day numbers: (DATE d - INTERVAL '1 day')::date is d - 1.            *)
(***************************************************************************)
EXTENDS Integers, Sequences, FiniteSets, TLC

\* ------------------------------------------------------------------ bounds
\* Days a request may name as valid_from, and the last day the clock reaches.
MaxDay == 3
\* POST /api/employer/tax requests that may overlap in time (Spec).
NumReqs == 2
\* POST /api/employer/tax requests issued one after the other (SpecSerial).
SerialReqs == 3
\* Connections of the pg pool (new Pool() without max).
PoolSize == 3
\* POST /api/candidatos requests that overlap freely (SpecCand).
CandReqs == 2
\* POST /api/candidatos requests sent one after the other (SpecCandSerial).
SerialCands == 3
\* POST /api/sites and POST /api/projects requests (SpecSites).
SiteReqs == 3
\* Requests of the coded tables served one after the other (SpecSitesSerial).
SerialSiteReqs == 2
\* Rows a query on table documentos returns (SpecDocs).
MaxDocs == 2
\* Requests of the routes of /api/empleados (SpecDocs).
EmpReqs == 2
\* The last id the sequence of table empleados gives out (SpecDocs).
MaxEmpleadoId == 3
\* The last id the sequence of table employers gives out.
MaxEmployerId == 2

\* SQL NULL and JavaScript null/undefined where a number is expected: no
\* date, id or status of the model is negative.
NULL == -1
Days == 1..MaxDay
AllReqs == 1..(IF SerialReqs > NumReqs THEN SerialReqs ELSE NumReqs)
AllCands == 1..(IF SerialCands > CandReqs THEN SerialCands ELSE CandReqs)

\* ------------------------------------------------------------------- text
UpperChars == <<"A","B","C","D","E","F","G","H","I","J","K","L","M",
                "N","O","P","Q","R","S","T","U","V","W","X","Y","Z">>
LowerChars == <<"a","b","c","d","e","f","g","h","i","j","k","l","m",
                "n","o","p","q","r","s","t","u","v","w","x","y","z">>
DigitChars == <<"0","1","2","3","4","5","6","7","8","9">>
\* The combining marks U+0300..U+036F, as one token.
CombiningMark == "COMBINING"
\* Precomposed accented letters and their canonical decomposition (NFD).
Decomposition == [A_ACUTE |-> <<"A", CombiningMark>>, a_acute |-> <<"a", CombiningMark>>,
                  O_ACUTE |-> <<"O", CombiningMark>>, o_acute |-> <<"o", CombiningMark>>]

Range(s) == {s[i] : i \in DOMAIN s}
IndexIn(s, c) == CHOOSE i \in DOMAIN s : s[i] = c
IsUpper(c) == c \in Range(UpperChars)
IsLower(c) == c \in Range(LowerChars)
IsDigit(c) == c \in Range(DigitChars)
\* \p{L} or \p{N} of the characters the model writes: the accented letters
\* are letters, the combining mark is not.
IsAlnum(c) == IsUpper(c) \/ IsLower(c) \/ IsDigit(c) \/ c \in DOMAIN Decomposition
\* \w of a JavaScript regular expression: [A-Za-z0-9_], also under /u.
IsWordChar(c) == IsUpper(c) \/ IsLower(c) \/ IsDigit(c) \/ c = "_"
IsSpace(c) == c = " "

\* String.prototype.normalize("NFD")
NFDChar(c) == IF c \in DOMAIN Decomposition THEN Decomposition[c] ELSE <<c>>
RECURSIVE NFD(_)
NFD(s) == IF s = <<>> THEN <<>> ELSE NFDChar(Head(s)) \o NFD(Tail(s))

\* String.prototype.toLowerCase / toUpperCase, one character
LowerChar(c) ==
  IF IsUpper(c) THEN LowerChars[IndexIn(UpperChars, c)]
  ELSE IF c = "A_ACUTE" THEN "a_acute"
  ELSE IF c = "O_ACUTE" THEN "o_acute"
  ELSE c
UpperChar(c) ==
  IF IsLower(c) THEN UpperChars[IndexIn(LowerChars, c)]
  ELSE IF c = "a_acute" THEN "A_ACUTE"
  ELSE IF c = "o_acute" THEN "O_ACUTE"
  ELSE c
toLowerCase(s) == [i \in DOMAIN s |-> LowerChar(s[i])]

\* String.prototype.trim
RECURSIVE TrimLeft(_)
TrimLeft(s) == IF s # <<>> /\ IsSpace(Head(s)) THEN TrimLeft(Tail(s)) ELSE s
RECURSIVE TrimRight(_)
TrimRight(s) ==
  IF s # <<>> /\ IsSpace(s[Len(s)]) THEN TrimRight(SubSeq(s, 1, Len(s) - 1)) ELSE s
trim(s) == TrimRight(TrimLeft(s))

\* server.js:186  s.normalize("NFD") without the combining marks U+0300..U+036F
stripDiacritics(s) == SelectSeq(NFD(s), LAMBDA c : c # CombiningMark)

\* \b before position i: exactly one of the characters around it is \w.
WordBoundary(l, i) == IsWordChar(l[i]) # (i > 1 /\ IsWordChar(l[i - 1]))
\* server.js:191  the replace over /\b[\p{L}\p{N}]+/gu from position i on: a
\* match starts at a letter or digit that stands at a \b, runs over the
\* letters and digits that follow, and has its first character upper-cased;
\* inMatch says that position i - 1 is inside a match.
RECURSIVE TitleFrom(_, _, _)
TitleFrom(l, i, inMatch) ==
  IF i > Len(l) THEN <<>>
  ELSE IF inMatch /\ IsAlnum(l[i]) THEN <<l[i]>> \o TitleFrom(l, i + 1, TRUE)
  ELSE IF IsAlnum(l[i]) /\ WordBoundary(l, i)
       THEN <<UpperChar(l[i])>> \o TitleFrom(l, i + 1, TRUE)
  ELSE <<l[i]>> \o TitleFrom(l, i + 1, FALSE)
\* server.js:188-192  lower-case, then upper-case the first character of every
\* match of /\b[\p{L}\p{N}]+/gu.
toTitleCase(s) == TitleFrom(toLowerCase(s), 1, FALSE)

\* server.js:194
normalizeBodyValue(str) == toTitleCase(stripDiacritics(trim(str)))
\* server.js:198
normalizeQueryValue(str) == toLowerCase(stripDiacritics(trim(str)))

\* The decimal numeral of a natural number, as a template literal writes it
RECURSIVE ToDigits(_)
ToDigits(n) ==
  IF n < 10 THEN <<DigitChars[n + 1]>>
  ELSE ToDigits(n \div 10) \o <<DigitChars[(n % 10) + 1]>>
\* A numeral without its leading zeros, without its trailing zeros.
RECURSIVE StripZeros(_)
StripZeros(t) == IF t # <<>> /\ t[1] = "0" THEN StripZeros(Tail(t)) ELSE t
RECURSIVE StripTrailingZeros(_)
StripTrailingZeros(t) ==
  IF t # <<>> /\ t[Len(t)] = "0" THEN StripTrailingZeros(SubSeq(t, 1, Len(t) - 1)) ELSE t
Zeros(n) == [i \in 1..n |-> "0"]
RECURSIVE DigitsValue(_)
DigitsValue(s) ==
  IF s = <<>> THEN 0
  ELSE 10 * DigitsValue(SubSeq(s, 1, Len(s) - 1)) + (IndexIn(DigitChars, s[Len(s)]) - 1)

\* A JavaScript number: NaN, an infinity, or a finite value kept as its sign,
\* the digits of its integer part (no leading zero, <<>> for 0) and the
\* digits of its fraction (no trailing zero).  Exact for numerals of up to
\* 15 significant digits within the range of a double.
JsNumber(kind, neg, int, frac) == [kind |-> kind, neg |-> neg, int |-> int, frac |-> frac]
NaN == JsNumber("nan", FALSE, <<>>, <<>>)
Infinity(neg) == JsNumber("infinity", neg, <<>>, <<>>)
Finite(neg, int, frac) == JsNumber("finite", neg, StripZeros(int), StripTrailingZeros(frac))
\* The number of a natural.
Natural(n) == Finite(FALSE, ToDigits(n), <<>>)

\* The digits of the radixes of 0x, 0o and 0b literals.
HexChars == DigitChars \o <<"a", "b", "c", "d", "e", "f">>
RadixDigit(c) ==
  IF LowerChar(c) \in Range(HexChars) THEN IndexIn(HexChars, LowerChar(c)) - 1 ELSE 16
IsRadixDigits(s, radix) == s # <<>> /\ \A i \in DOMAIN s : RadixDigit(s[i]) < radix
RECURSIVE RadixValue(_, _)
RadixValue(s, radix) ==
  IF s = <<>> THEN 0
  ELSE radix * RadixValue(SubSeq(s, 1, Len(s) - 1), radix) + RadixDigit(s[Len(s)])
\* The position of the first character of s that is in set, 0 without one.
FirstOf(s, set) ==
  IF \E i \in DOMAIN s : s[i] \in set
  THEN CHOOSE i \in DOMAIN s : s[i] \in set /\ \A j \in 1..(i - 1) : s[j] \notin set
  ELSE 0
IsDigits(s) == \A i \in DOMAIN s : IsDigit(s[i])
Signed(s) == s # <<>> /\ s[1] \in {"+", "-"}
Unsigned(s) == IF Signed(s) THEN Tail(s) ELSE s

\* StrUnsignedDecimalLiteral: Infinity, or digits with an optional fraction
\* and an optional exponent; the decimal point is moved by the exponent.
DecimalLiteral(u, neg) ==
  LET ePos == FirstOf(u, {"e", "E"})
      mant == IF ePos = 0 THEN u ELSE SubSeq(u, 1, ePos - 1)
      expo == IF ePos = 0 THEN <<>> ELSE SubSeq(u, ePos + 1, Len(u))
      dot  == FirstOf(mant, {"."})
      int  == IF dot = 0 THEN mant ELSE SubSeq(mant, 1, dot - 1)
      frac == IF dot = 0 THEN <<>> ELSE SubSeq(mant, dot + 1, Len(mant))
      e    == IF Signed(expo) /\ expo[1] = "-"
              THEN 0 - DigitsValue(Unsigned(expo)) ELSE DigitsValue(Unsigned(expo))
      d    == int \o frac
      at   == Len(int) + e
  IN  IF u = <<"I", "n", "f", "i", "n", "i", "t", "y">> THEN Infinity(neg)
      ELSE IF \/ ~IsDigits(int) \/ ~IsDigits(frac) \/ d = <<>>
              \/ ePos # 0 /\ (Unsigned(expo) = <<>> \/ ~IsDigits(Unsigned(expo)))
           THEN NaN
      ELSE IF at >= Len(d) THEN Finite(neg, d \o Zeros(at - Len(d)), <<>>)
      ELSE IF at <= 0 THEN Finite(neg, <<>>, Zeros(0 - at) \o d)
      ELSE Finite(neg, SubSeq(d, 1, at), SubSeq(d, at + 1, Len(d)))

\* Number(str), the StringToNumber of ECMAScript: white space around the
\* numeral is dropped, the empty text is 0, a 0x, 0o or 0b literal has no
\* sign, anything that is no numeral is NaN.
Number(s) ==
  LET t == trim(s)
      radix == IF Len(t) < 2 \/ t[1] # "0" THEN 0
               ELSE CASE t[2] \in {"x", "X"} -> 16
                      [] t[2] \in {"o", "O"} -> 8
                      [] t[2] \in {"b", "B"} -> 2
                      [] OTHER -> 0
  IN  IF t = <<>> THEN Natural(0)
      ELSE IF radix # 0
           THEN IF IsRadixDigits(SubSeq(t, 3, Len(t)), radix)
                THEN Natural(RadixValue(SubSeq(t, 3, Len(t)), radix)) ELSE NaN
      ELSE DecimalLiteral(Unsigned(t), Signed(t) /\ t[1] = "-")

\* ------------------------------------------------------------ the database
VARIABLES
  employers,   \* the rows of table employers
  employersSeq,          \* last value of the id sequence of employers
  eth,         \* committed rows of table employer_tax_history
  ethSeq,      \* last value of the id sequence of employer_tax_history
  pool,        \* idle connections of the pg pool
  tax,         \* POST /api/employer/tax: the state of each request's handler
  candidatos,            \* committed rows of table candidatos
  candSeq,               \* last value of the id sequence of candidatos
  candidato_documentos,  \* committed rows of table candidato_documentos
  cloudinary,            \* the objects stored in Cloudinary
  cand,        \* POST /api/candidatos: the state of each request's handler
  vw_api_candidatos,     \* the rows of the view the listing reads
  query,                 \* GET /api/candidatos: req.query as the client sent it
  list,        \* GET /api/candidatos: what the handler built and answered
  tables,                \* committed rows of the tables sites and projects
  tableSeq,              \* last value of the id sequence of each
  codeUnique,            \* whether the schema has a unique constraint on code
  site,        \* POST /api/sites, POST /api/projects: each request's handler
  edit,        \* PUT /api/candidatos/:id and .../estado: the last answer
  documentos,            \* the rows of table documentos, as a query returns them
  empleados,             \* the rows of table empleados
  empleadosSeq,          \* the last id the sequence of empleados gave out
  empleado     \* per request of the routes of /api/empleados, its handler

\* The variables of the tax history and those of the candidates.
taxVars == <<employers, employersSeq, eth, ethSeq, tax>>
candVars == <<candidatos, candSeq, candidato_documentos, cloudinary, cand>>
listVars == <<vw_api_candidatos, query, list>>
siteVars == <<tables, tableSeq, codeUnique, site>>
editVars == <<edit>>
docVars == <<documentos, empleados, empleadosSeq, empleado>>

\* Table regimes_tax, the catalog POST /api/employer/tax looks regime_code up
\* in (server.js:542).  Its rows are data of the installation.
RegimesTax == { [id |-> 1, code |-> <<"M","I","C","R","O">>],
                [id |-> 2, code |-> <<"M","i","c","r","o">>],
                [id |-> 3, code |-> <<"G","e","n","e","r","a","l">>] }

\* regime_code as clients send it; <<>> is a request without one.
RegimeCodeInputs == { <<>>, <<"M","I","C","R","O">>,
                      <<"E","S","P","E","C","I","A","L">> }
\* valid_from as clients send it; NULL is a request without one.  A date in
\* YYYY-MM-DD form is left as it is by normalizeBodyValue.
ValidFromInputs == Days \cup {NULL}

\* server.js:204-212  the middleware rewrites every string of a JSON body
\* (regime_code is text; valid_from is a date or absent)
NormalizeBody(body) ==
  [k \in DOMAIN body |->
     IF k = "regime_code" THEN normalizeBodyValue(body[k]) ELSE body[k]]

\* server.js:471-474  SELECT id FROM employers ORDER BY id ASC LIMIT 1
getEmployerIdOrNull(emps) ==
  IF emps = {} THEN NULL ELSE (CHOOSE e \in emps : \A f \in emps : e.id <= f.id).id

\* server.js:542  SELECT id FROM regimes_tax WHERE code = $1
SelectRegime(code) == {r \in RegimesTax : r.code = code}

\* server.js:551-556  SELECT id, valid_from ... WHERE employer_id = $1 AND
\* valid_to IS NULL ORDER BY valid_from DESC LIMIT 1: the rows it may return
SelectPrev(rows, empId) ==
  LET open == {r \in rows : r.employer_id = empId /\ r.valid_to = NULL}
  IN  {r \in open : \A o \in open : o.valid_from <= r.valid_from}

\* server.js:560  (DATE $2 - INTERVAL '1 day')::date
CloseDate(vf) == vf - 1

\* server.js:559-562  SET valid_to = ... WHERE id = $1 AND valid_to IS NULL:
\* the row versions the clauses of the UPDATE describe
ClosedVersions(rows, id, vf) ==
  {[r EXCEPT !.valid_to = CloseDate(vf)] : r \in {x \in rows : x.id = id /\ x.valid_to = NULL}}
\* An UPDATE that is accepted and closes every open row of the table.
UpdateEveryOpenRow(rows, id, vf) ==
  [error |-> FALSE,
   written |-> {[r EXCEPT !.valid_to = CloseDate(vf)] : r \in {x \in rows : x.valid_to = NULL}}]
\* An UPDATE that is accepted and closes the row of the id.
UpdateAccepted(rows, id, vf) ==
  [error |-> FALSE, written |-> ClosedVersions(rows, id, vf)]
\* server.js:558-563  the UPDATE as the server receives it.  DATE $2 puts a
\* parameter where the grammar of PostgreSQL takes a string constant only
\* (type 'string' is the syntax of a literal), so the statement is refused
\* when it is parsed: client.query() rejects and no row version is written.
UpdatePrev(rows, id, vf) == [error |-> TRUE, written |-> {}]

\* server.js:568-571  INSERT ... VALUES ($1,$2,$3,NULL) RETURNING id
InsertRow(id, empId, regimeId, vf) ==
  [id |-> id, employer_id |-> empId, regime_id |-> regimeId,
   valid_from |-> vf, valid_to |-> NULL]

\* The table after a transaction's writes: its new row versions replace the
\* versions of the same id, its inserted rows are added.
Overlay(rows, written) ==
  {r \in rows : \A w \in written : w.id # r.id} \cup written

\* server.js:574  COMMIT makes the writes of the transaction visible at once
Commit(rows, t) == Overlay(rows, t.upd \cup t.new)

\* A rollback that undoes the UPDATE and keeps the inserted row.
RollbackKeepsInsert(rows, t) == Overlay(rows, t.new)
\* server.js:586  ROLLBACK discards the writes of the transaction
Rollback(rows, t) == rows

\* server.js:577-583  the row of an id joined with its catalog row
RowView(r) ==
  [id |-> r.id, valid_from |-> r.valid_from, valid_to |-> r.valid_to,
   code |-> (CHOOSE c \in RegimesTax : c.id = r.regime_id).code]
SelectById(rows, id) == {RowView(r) : r \in {x \in rows : x.id = id}}

\* server.js:494-502  ... WHERE employer_id = $1 ORDER BY valid_from DESC
\* LIMIT 1: the rows it may return
SelectCurrent(rows, empId) ==
  LET mine == {r \in rows : r.employer_id = empId}
  IN  {RowView(r) : r \in {x \in mine : \A o \in mine : o.valid_from <= x.valid_from}}

\* All orderings of a finite set
RECURSIVE Orderings(_)
Orderings(S) ==
  IF S = {} THEN {<<>>}
  ELSE UNION {{<<x>> \o s : s \in Orderings(S \ {x})} : x \in S}

\* server.js:516-523  ... WHERE employer_id = $1 ORDER BY valid_from DESC: the
\* row lists it may return (rows of equal valid_from come in any order)
SelectHistory(rows, empId) ==
  LET mine == {RowView(r) : r \in {x \in rows : x.employer_id = empId}}
  IN  {s \in Orderings(mine) :
         \A i \in 1..(Len(s) - 1) : s[i].valid_from >= s[i + 1].valid_from}

\* ------------------------------------------- POST /api/employer/tax (533-592)
\* A handler before its request arrives.  upd and new are the row versions
\* its open transaction has written; body is the JSON of its 200 response.
\* A local is kept while the handler may still read it.  sent is the request
\* being served: regime_code and valid_from as the client sent them, and the
\* date new Date() gave when the handler read the clock; it stays with the
\* 200 response that answers it.
NoRequest == [regime_code |-> <<>>, valid_from |-> NULL, today |-> NULL]
TaxIdle ==
  [pc |-> "idle", empId |-> NULL, code |-> <<>>, valid_from |-> NULL,
   regimeId |-> NULL, vf |-> NULL, prev |-> NULL, ins |-> NULL,
   upd |-> {}, new |-> {}, status |-> 0, body |-> <<>>, sent |-> NoRequest]

\* A handler that ends with its client still checked out.
Keep(free) == free
\* server.js:590, 415  finally { client.release() }: the pool has one more
\* free connection
Release(free) == free + 1

\* server.js:585-586  an exception enters the catch block, which awaits
\* ROLLBACK and reads no local of the try block
Throw(t) == [TaxIdle EXCEPT !.pc = "rollback", !.upd = t.upd, !.new = t.new]
\* res.status(n).json(...) followed by the finally block: the handler has
\* returned and what is left of it is the response
Respond(t, n, b) == [TaxIdle EXCEPT !.pc = "done", !.status = n, !.body = b]

\* server.js:534  const client = await pool.connect()
TaxConnect(p) ==
  /\ tax[p].pc = "idle"
  /\ \A q \in 1..(p - 1) : tax[q].pc # "idle"
  /\ pool > 0
  /\ pool' = pool - 1
  /\ tax' = [tax EXCEPT ![p].pc = "getEmployer"]
  /\ UNCHANGED <<employers, employersSeq, eth, ethSeq, candVars, listVars, siteVars, editVars, docVars>>

\* server.js:536-542  getEmployerIdOrNull() through pool.query, the two checks
\* of the body, and the catalog query is sent
TaxGetEmployer(p) ==
  /\ tax[p].pc = "getEmployer"
  /\ pool > 0
  /\ \E ok \in BOOLEAN, rc \in RegimeCodeInputs, d \in ValidFromInputs :
       LET empId == getEmployerIdOrNull(employers)
           body  == NormalizeBody([regime_code |-> rc, valid_from |-> d])
       IN  IF ~ok
           THEN /\ tax' = [tax EXCEPT ![p] = Throw(@)]
                /\ pool' = pool
           ELSE IF empId = NULL \/ body.regime_code = <<>>
           THEN /\ tax' = [tax EXCEPT ![p] = Respond(@, 400, <<>>)]
                /\ pool' = Release(pool)
           ELSE /\ tax' = [tax EXCEPT ![p].pc = "selectRegime", ![p].empId = empId,
                                      ![p].code = body.regime_code,
                                      ![p].valid_from = body.valid_from,
                                      ![p].sent = [NoRequest EXCEPT
                                                     !.regime_code = rc,
                                                     !.valid_from = d]]
                /\ pool' = pool
  /\ UNCHANGED <<employers, employersSeq, eth, ethSeq, candVars, listVars, siteVars, editVars, docVars>>

\* server.js:542-548  the catalog row, the effective date, BEGIN is sent
TaxSelectRegime(p) ==
  /\ tax[p].pc = "selectRegime"
  /\ \E ok \in BOOLEAN, today \in Days :
       LET r == SelectRegime(tax[p].code)
       IN  IF ~ok
           THEN /\ tax' = [tax EXCEPT ![p] = Throw(@)]
                /\ pool' = pool
           ELSE IF r = {}
           THEN /\ tax' = [tax EXCEPT ![p] = Respond(@, 400, <<>>)]
                /\ pool' = Release(pool)
           ELSE /\ tax' = [tax EXCEPT
                             ![p].pc = "begin", ![p].code = <<>>,
                             ![p].valid_from = NULL,
                             ![p].regimeId = (CHOOSE x \in r : TRUE).id,
                             ![p].vf = IF tax[p].valid_from = NULL THEN today
                                       ELSE tax[p].valid_from,
                             ![p].sent.today = IF tax[p].valid_from = NULL THEN today
                                               ELSE NULL]
                /\ pool' = pool
  /\ UNCHANGED <<employers, employersSeq, eth, ethSeq, candVars, listVars, siteVars, editVars, docVars>>

\* server.js:548  BEGIN answered, the SELECT of the open row is sent
TaxBegin(p) ==
  /\ tax[p].pc = "begin"
  /\ \E ok \in BOOLEAN :
       tax' = [tax EXCEPT ![p] = IF ok THEN [@ EXCEPT !.pc = "selectPrev"] ELSE Throw(@)]
  /\ UNCHANGED <<employers, employersSeq, eth, ethSeq, pool, candVars, listVars, siteVars, editVars, docVars>>

\* server.js:551-557  the open row, if any
TaxSelectPrev(p) ==
  /\ tax[p].pc = "selectPrev"
  /\ \E ok \in BOOLEAN :
       LET found == SelectPrev(eth, tax[p].empId)
       IN  IF ~ok THEN tax' = [tax EXCEPT ![p] = Throw(@)]
           ELSE IF found = {} THEN tax' = [tax EXCEPT ![p].pc = "insert"]
           ELSE \E r \in found : tax' = [tax EXCEPT ![p].pc = "update", ![p].prev = r.id]
  /\ UNCHANGED <<employers, employersSeq, eth, ethSeq, pool, candVars, listVars, siteVars, editVars, docVars>>

\* server.js:558-563  the UPDATE closing the row found: the handler goes on
\* to the INSERT when the query resolves, to the catch block when it rejects
TaxUpdate(p) ==
  /\ tax[p].pc = "update"
  /\ \E ok \in BOOLEAN :
       LET res == UpdatePrev(eth, tax[p].prev, tax[p].vf)
       IN  tax' = [tax EXCEPT ![p] =
                     IF ok /\ ~res.error
                     THEN [@ EXCEPT !.pc = "insert", !.upd = res.written]
                     ELSE Throw(@)]
  /\ UNCHANGED <<employers, employersSeq, eth, ethSeq, pool, candVars, listVars, siteVars, editVars, docVars>>

\* server.js:567-572  the INSERT of the new open row
TaxInsert(p) ==
  /\ tax[p].pc = "insert"
  /\ \E ok \in BOOLEAN :
       IF ok
       THEN /\ ethSeq' = ethSeq + 1
            /\ tax' = [tax EXCEPT
                         ![p].pc = "commit", ![p].ins = ethSeq + 1,
                         ![p].empId = NULL, ![p].regimeId = NULL, ![p].vf = NULL,
                         ![p].new = {InsertRow(ethSeq + 1, tax[p].empId,
                                               tax[p].regimeId, tax[p].vf)}]
       ELSE /\ ethSeq' = ethSeq
            /\ tax' = [tax EXCEPT ![p] = Throw(@)]
  /\ UNCHANGED <<employers, employersSeq, eth, pool, candVars, listVars, siteVars, editVars, docVars>>

\* server.js:574  COMMIT
TaxCommit(p) ==
  /\ tax[p].pc = "commit"
  /\ \E ok \in BOOLEAN :
       IF ok
       THEN /\ eth' = Commit(eth, tax[p])
            /\ tax' = [tax EXCEPT ![p].pc = "readCurrent", ![p].prev = NULL,
                                  ![p].upd = {}, ![p].new = {}]
       ELSE /\ eth' = eth
            /\ tax' = [tax EXCEPT ![p] = Throw(@)]
  /\ UNCHANGED <<employers, employersSeq, ethSeq, pool, candVars, listVars, siteVars, editVars, docVars>>

\* server.js:577-584, 590  the row just inserted is read back through
\* pool.query and sent; finally releases the client
TaxReadCurrent(p) ==
  /\ tax[p].pc = "readCurrent"
  /\ pool > 0
  /\ \E ok \in BOOLEAN :
       IF ok
       THEN /\ \E row \in SelectById(eth, tax[p].ins) :
                 tax' = [tax EXCEPT ![p] =
                           [Respond(@, 200, <<row>>) EXCEPT !.sent = tax[p].sent]]
            /\ pool' = Release(pool)
       ELSE /\ tax' = [tax EXCEPT ![p] = Throw(@)]
            /\ pool' = pool
  /\ UNCHANGED <<employers, employersSeq, eth, ethSeq, candVars, listVars, siteVars, editVars, docVars>>

\* server.js:585-591  ROLLBACK answered: the 500 response, or ROLLBACK itself
\* threw and the handler's promise rejects with no response sent; finally
\* releases the client either way.  A ROLLBACK fails when the connection is
\* lost, and the server then aborts the transaction itself.
TaxRollback(p) ==
  /\ tax[p].pc = "rollback"
  /\ eth' = Rollback(eth, tax[p])
  /\ pool' = Release(pool)
  /\ \E ok \in BOOLEAN :
       tax' = [tax EXCEPT ![p] =
                 IF ok THEN Respond(@, 500, <<>>) ELSE [TaxIdle EXCEPT !.pc = "rejected"]]
  /\ UNCHANGED <<employers, employersSeq, ethSeq, candVars, listVars, siteVars, editVars, docVars>>

TaxStep(p) ==
  \/ TaxGetEmployer(p) \/ TaxSelectRegime(p) \/ TaxBegin(p) \/ TaxSelectPrev(p)
  \/ TaxUpdate(p) \/ TaxInsert(p) \/ TaxCommit(p) \/ TaxReadCurrent(p)
  \/ TaxRollback(p)

\* server.js:489-508  GET /api/employer/tax reads and writes nothing of its
\* own: the responses it may give in the current state (500 when a query
\* fails, 400 without an employer, else the row found or null)
GetTax ==
  LET empId == getEmployerIdOrNull(employers)
      found == SelectCurrent(eth, empId)
  IN  {[status |-> 500, body |-> <<>>]} \cup
      (IF empId = NULL THEN {[status |-> 400, body |-> <<>>]}
       ELSE IF found = {} THEN {[status |-> 200, body |-> <<>>]}
       ELSE {[status |-> 200, body |-> <<r>>] : r \in found})

\* server.js:511-529  GET /api/employer/tax/history, likewise
GetHistory ==
  LET empId == getEmployerIdOrNull(employers)
  IN  {[status |-> 500, body |-> <<>>]} \cup
      (IF empId = NULL THEN {[status |-> 400, body |-> <<>>]}
       ELSE {[status |-> 200, body |-> rows] : rows \in SelectHistory(eth, empId)})

\* The bodies of POST /api/employer: ruc and name as text, <<>> when the
\* body has none; logo_url is not sent.
EmployerBodies == [ruc : {<<>>, <<"1">>, <<"2">>}, name : {<<>>, <<"a">>}]
EmployerRow(id, ruc, name, logo) == [id |-> id, ruc |-> ruc, name |-> name, logo_url |-> logo]
\* server.js:609-614  INSERT ... ON CONFLICT (ruc) DO UPDATE SET name, logo_url:
\* a new RUC adds a row with the id the sequence gives, a stored RUC has its
\* row rewritten in place
Upsert(emps, id, ruc, name, logo) ==
  IF \E e \in emps : e.ruc = ruc
  THEN {IF e.ruc = ruc THEN EmployerRow(e.id, ruc, name, logo) ELSE e : e \in emps}
  ELSE emps \cup {EmployerRow(id, ruc, name, logo)}
\* server.js:605-620  POST /api/employer behind the middleware: 400 without ruc
\* or name, 500 when the query fails, else the row is stored.  The sequence
\* gives a value to every INSERT that is carried out, a conflicting one too.
PostEmployer ==
  /\ pool > 0
  /\ employersSeq < MaxEmployerId
  /\ \E b \in EmployerBodies, ok \in BOOLEAN :
       LET ruc  == trim(normalizeBodyValue(b.ruc))
           name == trim(normalizeBodyValue(b.name))
       IN  IF b.ruc = <<>> \/ b.name = <<>> \/ ruc = <<>> \/ name = <<>> \/ ~ok
           THEN UNCHANGED <<employers, employersSeq>>
           ELSE /\ employersSeq' = employersSeq + 1
                /\ employers' = Upsert(employers, employersSeq + 1, ruc, name, NULL)
  /\ UNCHANGED <<eth, ethSeq, pool, tax, candVars, listVars, siteVars, editVars, docVars>>

\* ------------------------------------------------ POST /api/candidatos (358-417)
\* The categories taken in alphabetical order.
tiposByName == <<"antecedentes", "capacitacion", "certificados", "cv", "dni", "medicos">>
\* server.js:386  the document categories, in upload order
tipos == <<"dni", "certificados", "antecedentes", "medicos", "capacitacion", "cv">>
\* server.js:233-240  upload.fields: the files multer admits per category; a
\* request with more never reaches the handler
maxCount == [dni |-> 2, certificados |-> 10, antecedentes |-> 5,
             medicos |-> 5, capacitacion |-> 10, cv |-> 5]

\* The text fields of the multipart form; <<>> is a field left out or empty.
\* multer fills req.body after the normalising middleware has run, so the
\* handler reads them as sent.
DniInputs == { <<>>, <<"1">>, <<"2">> }
NameInputs == { <<>>, <<"x">> }
CandBodies ==
  [dni : DniInputs, apellido_paterno : NameInputs,
   apellido_materno : NameInputs, nombres : NameInputs]
NoBody == [dni |-> <<>>, apellido_paterno |-> <<>>, apellido_materno |-> <<>>,
           nombres |-> <<>>]

\* req.files: the files of each category, by their originalname.  The
\* requests carry no file, two files of one category, or one file in each
\* of two categories; a category without files has no key in req.files,
\* which the handler reads as [] (server.js:390).
NoFiles == [t \in Range(tipos) |-> <<>>]
FileInputs ==
  { NoFiles,
    [NoFiles EXCEPT !.certificados = << <<"a", ".", "p", "d", "f">>, <<"b", ".", "p", "d", "f">> >>],
    [NoFiles EXCEPT !.dni = << <<"a", ".", "p", "d", "f">> >>,
                    !.cv = << <<"a", ".", "p", "d", "f">> >>] }

\* server.js:389-396  the files in the order the two loops reach them
RECURSIVE Flatten(_, _)
Flatten(f, n) ==
  IF n = 0 THEN <<>>
  ELSE Flatten(f, n - 1) \o
       [i \in DOMAIN f[tipos[n]] |-> [tipo |-> tipos[n], originalname |-> f[tipos[n]][i]]]

\* part_000:52  filename?.replace(/\.[^.]+$/, "")?.slice(0, 120)
PublicIdLimit == 120
LastDot(s) == IF \E i \in DOMAIN s : s[i] = "."
              THEN CHOOSE i \in DOMAIN s : s[i] = "." /\ \A j \in DOMAIN s : s[j] = "." => j <= i
              ELSE 0
PublicId(filename) ==
  LET i == LastDot(filename)
      base == IF i > 0 /\ i < Len(filename) THEN SubSeq(filename, 1, i - 1) ELSE filename
  IN  SubSeq(base, 1, IF Len(base) < PublicIdLimit THEN Len(base) ELSE PublicIdLimit)

\* part_000:47-59, server.js:392-393  the object an upload stores, which is
\* also the secure_url it resolves to
UploadedObject(candDni, file) ==
  [folder |-> <<"candidatos", candDni, file.tipo>>, public_id |-> PublicId(file.originalname)]

\* server.js:371  !dni || !apellido_paterno || !apellido_materno || !nombres
RequiredMissingButDni(body) ==
  body.apellido_paterno = <<>> \/ body.apellido_materno = <<>> \/ body.nombres = <<>>
RequiredMissing(body) ==
  body.dni = <<>> \/ body.apellido_paterno = <<>>
    \/ body.apellido_materno = <<>> \/ body.nombres = <<>>

\* The value of column estado in a row inserted without it (the default of
\* the column, taken to be the first value of the enum of server.js:459).
EstadoDefault == <<"E", "N", "_", "R", "E", "V", "I", "S", "I", "O", "N">>
\* server.js:377-382  the row the INSERT writes.  A column that may be NULL
\* holds <<>> for NULL and <<text>> for a text; the requests of the model
\* leave sede, turno_horario and grupo out, which the handler stores as
\* NULL; estado and fecha take the defaults of their columns.
CandidatoRow(id, body) ==
  [id |-> id, dni |-> body.dni, apellido_paterno |-> body.apellido_paterno,
   apellido_materno |-> body.apellido_materno, nombres |-> body.nombres,
   sede |-> <<>>, turno_horario |-> <<>>, grupo |-> <<>>,
   estado |-> EstadoDefault, fecha |-> 1]

\* The unique index on candidatos.dni, which error 23505 (server.js:412) tells of
DniTaken(rows, dni) == \E r \in rows : r.dni = dni

\* A bulk insert that keeps one row per category.
DocumentRowsOnePerTipo(candidatoId, inserts) ==
  {[candidato_id |-> candidatoId, n |-> i, tipo |-> inserts[i].tipo, url |-> inserts[i].url] :
     i \in {j \in DOMAIN inserts : \A k \in 1..(j - 1) : inserts[k].tipo # inserts[j].tipo}}
\* server.js:398-405  the rows of the bulk INSERT, one per element of inserts
\* (n is the place of the row in the VALUES list)
DocumentRows(candidatoId, inserts) ==
  {[candidato_id |-> candidatoId, n |-> i, tipo |-> inserts[i].tipo, url |-> inserts[i].url] :
     i \in DOMAIN inserts}

\* server.js:331-333  the url columns of the view, dni_doc_url to cv_url, in
\* the order of tipos.  The view is not in the source: the column of a
\* category is taken to be NULL (<<>>) for a candidate without a document of
\* the category and else the url of one of them, whichever the view shows.
RECURSIVE UrlColumns(_, _, _)
UrlColumns(documents, id, n) ==
  IF n = 0 THEN {<<>>}
  ELSE LET mine == {d \in documents : d.candidato_id = id /\ d.tipo = tipos[n]}
           shown == IF mine = {} THEN {<<>>} ELSE {<<d.url>> : d \in mine}
       IN  {Append(u, c) : u \in UrlColumns(documents, id, n - 1), c \in shown}
\* server.js:328-333, 349  the object node-postgres builds of a row: one key
\* per column name, so the column dni_doc_url AS dni replaces the column dni
\* selected before it
ResultObject(r, urls) ==
  [k \in DOMAIN r \cup Range(tipos) |->
     IF k \in Range(tipos) THEN urls[IndexIn(tipos, k)] ELSE r[k]]
\* server.js:324-353  GET /api/candidatos/:id on the given tables: the
\* responses it may give (500 when a query fails, 404 without a row of the
\* id, else the object of the row with its documentos).  The documents of a
\* candidate are written by one INSERT and share their created_at, so their
\* order in the answer is not fixed and they are kept as a set; they never
\* change once committed, so the two queries are taken on one state.
GetCandidato(rows, documents, id) ==
  {[status |-> 500, cab |-> <<>>, documentos |-> {}]} \cup
  (IF \A r \in rows : r.id # id THEN {[status |-> 404, cab |-> <<>>, documentos |-> {}]}
   ELSE {[status |-> 200, cab |-> <<ResultObject(r, urls)>>,
          documentos |-> {d \in documents : d.candidato_id = id}] :
           r \in {x \in rows : x.id = id},
           urls \in UrlColumns(documents, id, Len(tipos))})

\* A handler before its request arrives.  new and newDocs are the rows its
\* open transaction has written, code the e.code of the exception caught.
CandIdle ==
  [pc |-> "idle", body |-> NoBody, files |-> NoFiles, candidatoId |-> NULL,
   inserts |-> <<>>, new |-> {}, newDocs |-> {}, code |-> "", status |-> 0, id |-> NULL]

\* server.js:409-410  an exception enters the catch block, which awaits ROLLBACK
CandThrow(c, code) ==
  [CandIdle EXCEPT !.pc = "rollback", !.body = c.body, !.new = c.new,
                   !.newDocs = c.newDocs, !.code = code]
\* res.status(n).json(...) followed by the finally block
CandRespond(c, n, id) == [CandIdle EXCEPT !.pc = "done", !.status = n, !.id = id]

\* server.js:412-413  the status the catch block answers with
ErrorStatusAlways500(code) == 500
ErrorStatusOk(code) == 200
ErrorStatus(code) == IF code = "23505" THEN 409 ELSE 500

\* server.js:359  const client = await pool.connect(), for a request with
\* its form fields
CandConnect(p) ==
  /\ cand[p].pc = "idle"
  /\ \A q \in 1..(p - 1) : cand[q].pc # "idle"
  /\ pool > 0
  /\ pool' = pool - 1
  /\ \E body \in CandBodies :
       cand' = [cand EXCEPT ![p].pc = "validate", ![p].body = body]
  /\ UNCHANGED <<candidatos, candSeq, candidato_documentos, cloudinary, taxVars, listVars, siteVars, editVars, docVars>>

\* server.js:361-375  the required fields are checked; BEGIN is sent
CandValidate(p) ==
  /\ cand[p].pc = "validate"
  /\ IF RequiredMissing(cand[p].body)
     THEN /\ cand' = [cand EXCEPT ![p] = CandRespond(@, 400, NULL)]
          /\ pool' = Release(pool)
     ELSE /\ cand' = [cand EXCEPT ![p].pc = "begin"]
          /\ pool' = pool
  /\ UNCHANGED <<candidatos, candSeq, candidato_documentos, cloudinary, taxVars, listVars, siteVars, editVars, docVars>>

\* server.js:375-382  BEGIN answered, the INSERT of the candidate is sent
CandBegin(p, outcomes) ==
  /\ cand[p].pc = "begin"
  /\ \E ok \in outcomes :
       cand' = [cand EXCEPT ![p] = IF ok THEN [@ EXCEPT !.pc = "insert"] ELSE CandThrow(@, "")]
  /\ UNCHANGED <<candidatos, candSeq, candidato_documentos, cloudinary, pool, taxVars, listVars, siteVars, editVars, docVars>>

\* What follows the uploads done so far: the next upload, the bulk INSERT
\* when all are done, COMMIT when there was no file (server.js:389-407).
AfterUpload(c) ==
  IF Len(c.inserts) < Len(Flatten(c.files, Len(tipos))) THEN "upload"
  ELSE IF Len(c.inserts) > 0 THEN "insertDocs" ELSE "commit"

\* server.js:377-396  the INSERT of the candidate answered.  It waits for a
\* transaction that has inserted the same dni, and fails with 23505 when
\* the dni is committed.  The handler then reads req.files, the files the
\* request came with.
CandInsert(p, outcomes) ==
  /\ cand[p].pc = "insert"
  /\ \A q \in AllCands \ {p} : ~DniTaken(cand[q].new, cand[p].body.dni)
  /\ \E ok \in outcomes :
       IF ~ok
       THEN /\ cand' = [cand EXCEPT ![p] = CandThrow(@, "")]
            /\ candSeq' = candSeq
       ELSE IF DniTaken(candidatos, cand[p].body.dni)
       THEN /\ cand' = [cand EXCEPT ![p] = CandThrow(@, "23505")]
            /\ candSeq' = candSeq + 1
       ELSE /\ \E files \in FileInputs :
                 LET next == [cand[p] EXCEPT
                                !.candidatoId = candSeq + 1,
                                !.new = {CandidatoRow(candSeq + 1, cand[p].body)},
                                !.files = files]
                 IN  cand' = [cand EXCEPT ![p] = [next EXCEPT !.pc = AfterUpload(next)]]
            /\ candSeq' = candSeq + 1
  /\ UNCHANGED <<candidatos, candidato_documentos, cloudinary, pool, taxVars, listVars, siteVars, editVars, docVars>>

\* server.js:391-395  one uploadToCloudinary settles
CandUpload(p, outcomes) ==
  /\ cand[p].pc = "upload"
  /\ \E ok \in outcomes :
       LET file == Flatten(cand[p].files, Len(tipos))[Len(cand[p].inserts) + 1]
           url  == UploadedObject(cand[p].body.dni, file)
           next == [cand[p] EXCEPT !.inserts = Append(@, [tipo |-> file.tipo, url |-> url])]
       IN  IF ok
           THEN /\ cloudinary' = cloudinary \cup {url}
                /\ cand' = [cand EXCEPT ![p] = [next EXCEPT !.pc = AfterUpload(next)]]
           ELSE /\ cloudinary' = cloudinary
                /\ cand' = [cand EXCEPT ![p] = CandThrow(@, "")]
  /\ UNCHANGED <<candidatos, candSeq, candidato_documentos, pool, taxVars, listVars, siteVars, editVars, docVars>>

\* server.js:398-407  the bulk INSERT of the documents answered
CandInsertDocs(p, outcomes) ==
  /\ cand[p].pc = "insertDocs"
  /\ \E ok \in outcomes :
       cand' = [cand EXCEPT ![p] =
                  IF ok THEN [@ EXCEPT !.pc = "commit",
                                       !.newDocs = DocumentRows(cand[p].candidatoId,
                                                                cand[p].inserts)]
                  ELSE CandThrow(@, "")]
  /\ UNCHANGED <<candidatos, candSeq, candidato_documentos, cloudinary, pool, taxVars, listVars, siteVars, editVars, docVars>>

\* server.js:407-408, 415  COMMIT answered: the rows are committed and
\* {ok: true, id} is sent; finally releases the client
CandCommit(p, outcomes) ==
  /\ cand[p].pc = "commit"
  /\ \E ok \in outcomes :
       IF ok
       THEN /\ candidatos' = candidatos \cup cand[p].new
            /\ candidato_documentos' = candidato_documentos \cup cand[p].newDocs
            /\ cand' = [cand EXCEPT ![p] = CandRespond(@, 200, cand[p].candidatoId)]
            /\ pool' = Release(pool)
       ELSE /\ cand' = [cand EXCEPT ![p] = CandThrow(@, "")]
            /\ UNCHANGED <<candidatos, candidato_documentos, pool>>
  /\ UNCHANGED <<candSeq, cloudinary, taxVars, listVars, siteVars, editVars, docVars>>

\* server.js:409-416  ROLLBACK answered: 409 or 500 is sent, or ROLLBACK
\* itself threw and the handler's promise rejects with no response sent;
\* finally releases the client either way
CandRollback(p, outcomes) ==
  /\ cand[p].pc = "rollback"
  /\ pool' = Release(pool)
  /\ \E ok \in outcomes :
       cand' = [cand EXCEPT ![p] =
                  IF ok THEN CandRespond(@, ErrorStatus(@.code), NULL)
                  ELSE [CandIdle EXCEPT !.pc = "rejected"]]
  /\ UNCHANGED <<candidatos, candSeq, candidato_documentos, cloudinary, taxVars, listVars, siteVars, editVars, docVars>>

CandStep(p, outcomes) ==
  \/ CandBegin(p, outcomes) \/ CandInsert(p, outcomes) \/ CandUpload(p, outcomes)
  \/ CandInsertDocs(p, outcomes) \/ CandCommit(p, outcomes) \/ CandRollback(p, outcomes)

\* The candidate writer, every statement and upload of which may fail.
\* The public_id Cloudinary gives an upload that names none.
RandomIds == {<<"r", "1">>}
\* server.js:251-258  POST /upload stores the picture of a fixed address: an
\* object outside every folder, under a new public_id of Cloudinary's
\* choosing; 500, and nothing stored, when the upload fails
PostUpload(oks) ==
  /\ \E ok \in oks, id \in RandomIds :
       LET object == [folder |-> <<>>, public_id |-> id]
       IN  /\ object \notin cloudinary
           /\ cloudinary' = IF ok THEN cloudinary \cup {object} ELSE cloudinary
  /\ UNCHANGED <<candidatos, candSeq, candidato_documentos, cand, pool,
                 taxVars, listVars, siteVars, editVars, docVars>>

NextCand ==
  \/ \E p \in 1..CandReqs : CandConnect(p) \/ CandValidate(p) \/ CandStep(p, BOOLEAN)
  \/ PostUpload(BOOLEAN)

\* No POST /api/candidatos handler is running.
CandQuiet == \A q \in AllCands : cand[q].pc \in {"idle", "done", "rejected"}

\* The candidate writer with the requests one after the other, and with a
\* database and a storage that answer every request: the only error left
\* is the duplicate dni.
NextCandSerial ==
  \/ \E p \in 1..SerialCands :
       (CandQuiet /\ CandConnect(p)) \/ CandValidate(p) \/ CandStep(p, {TRUE})
  \/ PostUpload({TRUE})

\* ------------------------------------------------ GET /api/candidatos (276-319)
\* A parameter of the query string is <<>> when the URL leaves it out and
\* <<text>> when the URL gives it.
TODOS == <<"T", "O", "D", "O", "S">>
NoQuery == [ano |-> <<>>, mes |-> <<>>, estado |-> <<>>, grupoInicio |-> <<>>, grupoFin |-> <<>>]
QueryInputs ==
  [ano : { <<>>, <<TODOS>>, << <<"2", "0", "2", "4">> >> },
   mes : { <<>>, <<TODOS>>, << <<"5">> >> },
   estado : { <<>>, << <<"A", "c", "t", "i", "v", "o">> >> },
   grupoInicio : { <<>>, << <<>> >>, << <<"1">> >>, << <<"x">> >>, << <<"-", "1">> >> },
   grupoFin : { <<>>, << <<>> >>, << <<"1">> >>, << <<"2">> >>, << <<"0", "X", "2">> >>,
                << <<"1", ".", "5">> >> }]

\* The rows the view may hold; fecha is kept by its year and its month.
ViewSample ==
  { [id |-> 1, year |-> 2024, month |-> 5, estado |-> <<"a", "c", "t", "i", "v", "o">>,
     grupo |-> <<"1">>],
    [id |-> 2, year |-> 2024, month |-> 7, estado |-> <<"A", "c", "t", "i", "v", "o">>,
     grupo |-> <<"2">>],
    [id |-> 3, year |-> 2023, month |-> 5, estado |-> <<"a", "c", "t", "i", "v", "o">>,
     grupo |-> <<"A">>],
    [id |-> 4, year |-> 2023, month |-> 7, estado |-> <<"a", "c", "t", "i", "v", "o">>,
     grupo |-> <<"2", "1", "4", "7", "4", "8", "3", "6", "4", "8">>] }

\* server.js:214-221  the middleware rewrites every string of req.query
NormalizeQuery(q) ==
  [k \in DOMAIN q |-> IF q[k] = <<>> THEN <<>> ELSE <<normalizeQueryValue(q[k][1])>>]

\* The values of the parameter list: a Number or a string.
NumberParam(n) == [type |-> "number", num |-> n, str |-> <<>>]
StringParam(t) == [type |-> "string", num |-> Natural(0), str |-> t]

\* server.js:290-296  where.push(`... $${i++} ...`); params.push(...): a
\* condition with the numbers of its placeholders, each of which takes the
\* next value of i
Push(f, cond, holes, values) ==
  [where |-> Append(f.where, [cond |-> cond, ph |-> [k \in 1..holes |-> f.i + k - 1]]),
   params |-> f.params \o values,
   i |-> f.i + holes]

\* A parameter that is present, empty or not.
Present(v) == v # <<>>
\* A JavaScript string that is present and not empty.
Truthy(v) == v # <<>> /\ v[1] # <<>>

\* server.js:290-291  ano !== "TODOS", mes !== "TODOS"
IsSentinel(v) == v = TODOS

\* server.js:278-296  the defaults of the destructuring and the conditions
\* and parameters the handler collects
BuildWhere(q) ==
  LET ano == IF q.ano = <<>> THEN TODOS ELSE q.ano[1]
      mes == IF q.mes = <<>> THEN TODOS ELSE q.mes[1]
      f0 == [where |-> <<>>, params |-> <<>>, i |-> 1]
      f1 == IF ~IsSentinel(ano) THEN Push(f0, "year", 1, <<NumberParam(Number(ano))>>) ELSE f0
      f2 == IF ~IsSentinel(mes) THEN Push(f1, "month", 1, <<NumberParam(Number(mes))>>) ELSE f1
      f3 == IF Truthy(q.estado) THEN Push(f2, "estado", 1, <<StringParam(q.estado[1])>>) ELSE f2
  IN  IF Truthy(q.grupoInicio) /\ Truthy(q.grupoFin)
      THEN Push(f3, "grupo", 2, <<NumberParam(Number(q.grupoInicio[1])),
                                  NumberParam(Number(q.grupoFin[1]))>>)
      ELSE f3

\* server.js:294  grupo ~ '^[0-9]+$'
AllDigits(t) == t # <<>> /\ \A i \in DOMAIN t : IsDigit(t[i])
\* server.js:294  CAST(grupo AS INT): the digits of the largest value of the
\* type, 2^31 - 1, and whether the number a string of digits writes is
\* larger (compared by length, then digit by digit)
IntMaxDigits == <<"2", "1", "4", "7", "4", "8", "3", "6", "4", "7">>
ExceedsInt(t) ==
  LET d == StripZeros(t)
  IN  \/ Len(d) > Len(IntMaxDigits)
      \/ /\ Len(d) = Len(IntMaxDigits)
         /\ \E i \in DOMAIN d :
              /\ IndexIn(DigitChars, d[i]) > IndexIn(DigitChars, IntMaxDigits[i])
              /\ \A j \in 1..(i - 1) : d[j] = IntMaxDigits[j]

\* server.js:294  ... BETWEEN $i AND $i+1
Between(v, lo, hi) == lo <= v /\ v <= hi

\* A number parameter reaches the server as the text of its toString().  As
\* a bound of BETWEEN it is read as an integer: a whole, finite number of
\* the range -2^31 .. 2^31 - 1.
IntMinDigits == <<"2", "1", "4", "7", "4", "8", "3", "6", "4", "8">>
IsInt4(n) ==
  /\ n.kind = "finite"
  /\ n.frac = <<>>
  /\ ~ExceedsInt(n.int) \/ (n.neg /\ n.int = IntMinDigits)
Int4Value(n) ==
  IF ~n.neg THEN DigitsValue(n.int)
  ELSE IF n.int = IntMinDigits THEN (0 - 2147483647) - 1
  ELSE 0 - DigitsValue(n.int)
\* server.js:290-291  EXTRACT(...) = $i: the parameter is the whole number v
EqualsNatural(n, v) ==
  n.kind = "finite" /\ n.frac = <<>> /\ n.int = StripZeros(ToDigits(v))
    /\ (~n.neg \/ v = 0)

\* server.js:290-294  one condition of the WHERE clause on one row; NaN
\* equals no year and no month
Holds(c, params, r) ==
  CASE c.cond = "year"   -> EqualsNatural(params[c.ph[1]].num, r.year)
    [] c.cond = "month"  -> EqualsNatural(params[c.ph[1]].num, r.month)
    [] c.cond = "estado" -> params[c.ph[1]].str = r.estado
    [] c.cond = "grupo"  ->
         /\ AllDigits(r.grupo)
         /\ ~ExceedsInt(r.grupo)
         /\ Between(DigitsValue(r.grupo), Int4Value(params[c.ph[1]].num),
                    Int4Value(params[c.ph[2]].num))

\* The cast fails on a row that has passed the other conditions and whose
\* digits exceed the type.
CastFails(f, view) ==
  \E i \in DOMAIN f.where :
    /\ f.where[i].cond = "grupo"
    /\ \E r \in view :
         /\ \A j \in DOMAIN f.where \ {i} : Holds(f.where[j], f.params, r)
         /\ AllDigits(r.grupo)
         /\ ExceedsInt(r.grupo)

\* The statement is refused when a bound of BETWEEN is no integer.
Refused(f) ==
  \E i \in DOMAIN f.where :
    f.where[i].cond = "grupo"
      /\ \E k \in 1..2 : ~IsInt4(f.params[f.where[i].ph[k]].num)

\* server.js:311  ORDER BY fecha DESC, id DESC
ComesFirst(r1, r2) ==
  \/ r1.year > r2.year
  \/ r1.year = r2.year /\ r1.month > r2.month
  \/ r1.year = r2.year /\ r1.month = r2.month /\ r1.id > r2.id
OrderByFechaId(S) ==
  CHOOSE rows \in Orderings(S) :
    \A i, j \in DOMAIN rows : i < j => ComesFirst(rows[i], rows[j])

\* The answer before the request is served.
NoList == [status |-> 0, where |-> <<>>, params |-> <<>>, rows |-> <<>>]

\* server.js:204-223, 276-319  the request through the middleware and the
\* handler: what it builds and what it answers (ok: the query is answered)
ServeList(q, view, ok) ==
  LET f == BuildWhere(NormalizeQuery(q))
  IN  IF ok /\ ~Refused(f) /\ ~CastFails(f, view)
      THEN [status |-> 200, where |-> f.where, params |-> f.params,
            rows |-> OrderByFechaId({r \in view :
                        \A i \in DOMAIN f.where : Holds(f.where[i], f.params, r)})]
      ELSE [status |-> 500, where |-> f.where, params |-> f.params, rows |-> <<>>]

\* GET /api/candidatos is served
ListCandidatos ==
  /\ list = NoList
  /\ \E ok \in BOOLEAN : list' = ServeList(query, vw_api_candidatos, ok)
  /\ UNCHANGED <<vw_api_candidatos, query, pool, taxVars, candVars, siteVars, editVars, docVars>>

\* ------------------------------- POST /api/sites, POST /api/projects (634-722)
\* server.js:160  .slice(0, 32)
SlugLimit == 32
\* server.js:158  .replace(/[^A-Z0-9]+/g, "-"): every run of other
\* characters becomes one hyphen
RECURSIVE Hyphenate(_)
Hyphenate(s) ==
  IF s = <<>> THEN <<>>
  ELSE LET rest == Hyphenate(Tail(s))
       IN  IF IsUpper(Head(s)) \/ IsDigit(Head(s)) THEN <<Head(s)>> \o rest
           ELSE IF rest # <<>> /\ rest[1] = "-" THEN rest
           ELSE <<"-">> \o rest
\* server.js:159  .replace(/^-+|-+$/g, "")
RECURSIVE TrimHyphens(_)
TrimHyphens(s) ==
  IF s # <<>> /\ s[1] = "-" THEN TrimHyphens(Tail(s))
  ELSE IF s # <<>> /\ s[Len(s)] = "-" THEN TrimHyphens(SubSeq(s, 1, Len(s) - 1))
  ELSE s
\* server.js:154-161  slugify; on the characters of the model NFKD
\* decomposes as NFD does
slugify(str) ==
  LET u == [i \in DOMAIN stripDiacritics(str) |-> UpperChar(stripDiacritics(str)[i])]
      t == TrimHyphens(Hyphenate(u))
  IN  SubSeq(t, 1, IF Len(t) < SlugLimit THEN Len(t) ELSE SlugLimit)

\* A suffix that counts from 1.
SuffixedFromOne(baseCode, n) == baseCode \o <<"-">> \o ToDigits(n - 1)
\* server.js:170  `${baseCode}-${n}`
Suffixed(baseCode, n) == baseCode \o <<"-">> \o ToDigits(n)
\* server.js:164  baseCode || "ITEM"
FirstCode(baseCode) == IF baseCode = <<>> THEN <<"I", "T", "E", "M">> ELSE baseCode

\* server.js:167  SELECT 1 FROM table WHERE code=$1 LIMIT 1 has a row
CodePresent(rows, code) == \E r \in rows : r.code = code

\* server.js:640, 709  the code used when the name has no letter or digit
Fallback == [sites |-> <<"S", "I", "T", "E">>, projects |-> <<"P", "R", "O", "J">>]

\* The name of the JSON body (<<>> when left out or empty), and site_id of
\* POST /api/projects (NULL when left out)
SiteNameInputs == { <<>>, <<"a", "l", "p", "h", "a">>, <<"!">> }
SiteIdInputs == {NULL, 1}
\* The rows the table sites may hold when the requests arrive
SitesSample ==
  { [id |-> 1, code |-> <<"A", "L", "P", "H", "A">>, name |-> <<"A", "l", "p", "h", "a">>,
     site_id |-> NULL],
    [id |-> 2, code |-> <<"A", "L", "P", "H", "A", "-", "2">>,
     name |-> <<"A", "l", "p", "h", "a">>, site_id |-> NULL],
    [id |-> 3, code |-> <<"A", "L", "P", "H", "A", "-", "3">>,
     name |-> <<"A", "l", "p", "h", "a">>, site_id |-> NULL] }

\* A handler before its request arrives
SiteIdle ==
  [pc |-> "idle", route |-> "", table |-> "", name |-> <<>>, site_id |-> NULL,
   baseCode |-> <<>>, code |-> <<>>, n |-> 0, status |-> 0]
\* res.json(...) or res.status(n).send(...): the table and the code stay
\* known for the answer
SiteRespond(h, n) ==
  [SiteIdle EXCEPT !.pc = "done", !.route = h.route, !.table = h.table,
                   !.code = h.code, !.status = n]

\* server.js:634-640, 703-709  the request arrives: the middleware rewrites
\* the name, the handler checks its fields, derives the base code and
\* enters generateUniqueCode, which sends its first SELECT
SiteStart(p) ==
  /\ site[p].pc = "idle"
  /\ \A q \in 1..(p - 1) : site[q].pc # "idle"
  /\ \E table \in {"sites", "projects"}, sent \in SiteNameInputs, site_id \in SiteIdInputs :
       LET name == normalizeBodyValue(sent)
           base == slugify(name)
           baseCode == IF base = <<>> THEN Fallback[table] ELSE base
       IN  /\ table = "sites" => site_id = NULL
           /\ site' = [site EXCEPT ![p] =
                IF name = <<>> \/ (table = "projects" /\ site_id = NULL)
                THEN SiteRespond([@ EXCEPT !.route = "POST", !.table = table], 400)
                ELSE [@ EXCEPT !.pc = "probe", !.route = "POST", !.table = table,
                               !.name = trim(name), !.site_id = site_id,
                               !.baseCode = baseCode, !.code = FirstCode(baseCode),
                               !.n = 1]]
  /\ UNCHANGED <<tables, tableSeq, codeUnique, pool, taxVars, candVars, listVars, editVars, docVars>>

\* server.js:166-171  one SELECT of generateUniqueCode answered: the code is
\* returned when no row has it, else the next suffix is tried
SiteProbe(p) ==
  /\ site[p].pc = "probe"
  /\ \E ok \in BOOLEAN :
       site' = [site EXCEPT ![p] =
         IF ~ok THEN SiteRespond(@, 500)
         ELSE IF ~CodePresent(tables[@.table], @.code) THEN [@ EXCEPT !.pc = "insert"]
         ELSE [@ EXCEPT !.n = @ + 1, !.code = Suffixed(site[p].baseCode, site[p].n + 1)]]
  /\ UNCHANGED <<tables, tableSeq, codeUnique, pool, taxVars, candVars, listVars, editVars, docVars>>

\* server.js:649-652, 718-721  the catch block answers every exception alike
ConflictStatus == 500

\* A schema that lets every INSERT through.
NeverRejected(unique, rows, code) == FALSE
\* The INSERT is rejected with a uniqueness violation: the schema has the
\* constraint and a row has the code
UniqueViolation(unique, rows, code) == unique /\ CodePresent(rows, code)

\* server.js:642-651, 711-720  the INSERT answered: the row is stored and
\* sent back, or the statement failed (with 23505 when the code is taken and
\* the schema forbids it) and the catch block answers
SiteInsert(p) ==
  /\ site[p].pc = "insert"
  /\ \E ok \in BOOLEAN :
       LET h == site[p]
           id == tableSeq[h.table] + 1
       IN  IF ~ok
           THEN /\ site' = [site EXCEPT ![p] = SiteRespond(h, 500)]
                /\ UNCHANGED <<tables, tableSeq>>
           ELSE IF UniqueViolation(codeUnique, tables[h.table], h.code)
           THEN /\ site' = [site EXCEPT ![p] = SiteRespond(h, ConflictStatus)]
                /\ tableSeq' = [tableSeq EXCEPT ![h.table] = id]
                /\ UNCHANGED tables
           ELSE /\ site' = [site EXCEPT ![p] = SiteRespond(h, 200)]
                /\ tableSeq' = [tableSeq EXCEPT ![h.table] = id]
                /\ tables' = [tables EXCEPT ![h.table] =
                                @ \cup {[id |-> id, code |-> h.code, name |-> h.name,
                                         site_id |-> h.site_id]}]
  /\ UNCHANGED <<codeUnique, pool, taxVars, candVars, listVars, editVars, docVars>>

\* The id of the URL of PUT and DELETE: a row the table may hold when the
\* requests arrive (for projects, the first row a POST adds), and the first
\* row a POST adds to sites
SiteRowIds == {1, 4}
\* The name of the JSON body of a PUT: left out, empty, or a text
PutNameInputs == { <<>>, << <<>> >>, << <<"b">> >> }

\* server.js:658, 727  const { name=null, site_id=null } = req.body, after
\* the middleware has rewritten the texts of the body
PutParam(sent) == IF sent = <<>> THEN <<>> ELSE <<normalizeBodyValue(sent[1])>>

\* server.js:660-662, 729-732  UPDATE table SET name = COALESCE($1, name),
\* site_id = COALESCE($2, site_id) WHERE id = $3: the rows after it
UpdateRow(rows, id, name, site_id) ==
  { IF r.id = id
    THEN [r EXCEPT !.name = IF name = <<>> THEN @ ELSE name[1],
                   !.site_id = IF site_id = NULL THEN @ ELSE site_id]
    ELSE r : r \in rows }

\* server.js:655-671, 724-741  PUT /api/sites/:id and PUT /api/projects/:id:
\* one UPDATE; 404 when it changed no row, 500 when it failed
SitePut(p) ==
  /\ site[p].pc = "idle"
  /\ \A q \in 1..(p - 1) : site[q].pc # "idle"
  /\ \E table \in {"sites", "projects"}, id \in SiteRowIds, sent \in PutNameInputs,
        site_id \in SiteIdInputs, ok \in BOOLEAN :
       LET h == [site[p] EXCEPT !.route = "PUT", !.table = table]
           rowCount == Cardinality({r \in tables[table] : r.id = id})
       IN  /\ table = "sites" => site_id = NULL
           /\ IF ~ok
              THEN /\ site' = [site EXCEPT ![p] = SiteRespond(h, 500)]
                   /\ UNCHANGED tables
              ELSE /\ site' = [site EXCEPT ![p] =
                                 SiteRespond(h, IF rowCount = 0 THEN 404 ELSE 200)]
                   /\ tables' = [tables EXCEPT ![table] =
                                   UpdateRow(@, id, PutParam(sent), site_id)]
  /\ UNCHANGED <<tableSeq, codeUnique, pool, taxVars, candVars, listVars, editVars, docVars>>

\* server.js:676, 746  DELETE FROM table WHERE id = $1: the rows after it
DeleteRow(rows, id) == {r \in rows : r.id # id}

\* server.js:673-683, 743-753  DELETE /api/sites/:id and DELETE
\* /api/projects/:id: one DELETE, answered 200 whether or not a row had the
\* id; 409 when the schema, which is not in the source, refuses it for the
\* rows that refer to this one (23503), 500 on any other failure
SiteDelete(p) ==
  /\ site[p].pc = "idle"
  /\ \A q \in 1..(p - 1) : site[q].pc # "idle"
  /\ \E table \in {"sites", "projects"}, id \in SiteRowIds,
        outcome \in {"deleted", "23503", "error"} :
       LET h == [site[p] EXCEPT !.route = "DELETE", !.table = table]
       IN  IF outcome = "deleted"
           THEN /\ site' = [site EXCEPT ![p] = SiteRespond(h, 200)]
                /\ tables' = [tables EXCEPT ![table] = DeleteRow(@, id)]
           ELSE /\ site' = [site EXCEPT ![p] =
                              SiteRespond(h, IF outcome = "23503" THEN 409 ELSE 500)]
                /\ UNCHANGED tables
  /\ UNCHANGED <<tableSeq, codeUnique, pool, taxVars, candVars, listVars, editVars, docVars>>

NextSites ==
  \E p \in 1..SiteReqs :
    SiteStart(p) \/ SiteProbe(p) \/ SiteInsert(p) \/ SitePut(p) \/ SiteDelete(p)

\* No other request is being served.
SiteAlone(p) == \A q \in 1..SiteReqs \ {p} : site[q].pc \in {"idle", "done"}

\* The requests of the coded tables served one after the other.
NextSitesSerial ==
  \E p \in 1..SerialSiteReqs :
    /\ SiteAlone(p)
    /\ SiteStart(p) \/ SiteProbe(p) \/ SiteInsert(p) \/ SitePut(p) \/ SiteDelete(p)

\* ------------------ PUT /api/candidatos/:id, PUT /api/candidatos/:id/estado
\* server.js:459 and candidatos.controller.js:200  the enum of each version
\* of the handler of PUT /api/candidatos/:id/estado
EstadoEnum ==
  [server |-> { <<"E", "N", "_", "R", "E", "V", "I", "S", "I", "O", "N">>,
                <<"C", "A", "N", "C", "E", "L", "A", "D", "O">>,
                <<"A", "P", "R", "O", "B", "A", "D", "O">> },
   controller |-> { <<"E", "n", " ", "R", "e", "v", "i", "s", "i", "o", "n">>,
                    <<"C", "a", "n", "c", "e", "l", "a", "d", "o">>,
                    <<"A", "p", "r", "o", "b", "a", "d", "o">> }]

\* The estado of the JSON body of PUT .../estado: left out, a value of
\* either enum, or another text
EstadoInputs ==
  { <<>> } \cup {<<e>> : e \in EstadoEnum.server \cup EstadoEnum.controller}
    \cup { << <<"f", "o", "o">> >> }

\* server.js:204-212  what the middleware makes of each estado of a JSON body
NormalizedEstado ==
  [sent \in EstadoInputs |->
     IF sent = <<>> THEN <<>> ELSE <<normalizeBodyValue(sent[1])>>]

\* The ids of the URL: the candidate stored at the start, the one a POST
\* may add, and one no candidate has
EditIds == {1, 2, 3}
\* The candidate stored before the requests arrive
StoredCandidate ==
  [id |-> 1, dni |-> <<"1">>, apellido_paterno |-> <<"x">>, apellido_materno |-> <<"x">>,
   nombres |-> <<"x">>, sede |-> <<>>, turno_horario |-> <<>>, grupo |-> <<>>,
   estado |-> EstadoDefault, fecha |-> 1]

\* The fields of the multipart form of PUT /api/candidatos/:id: <<>> for a
\* field left out, <<text>> for a field sent (the text may be empty).
\* multer fills req.body after the normalising middleware has run.
EditFields == {"apellido_paterno", "apellido_materno", "nombres", "sede",
               "turno_horario", "grupo", "estado"}
NullableColumns == {"sede", "turno_horario", "grupo"}
NoEdit == [k \in EditFields |-> <<>>]
EditBodies ==
  { NoEdit,
    [NoEdit EXCEPT !.nombres = << <<"y">> >>],
    [NoEdit EXCEPT !.estado = << <<"f", "o", "o">> >>],
    [NoEdit EXCEPT !.nombres = << <<>> >>, !.sede = << <<"y">> >>],
    [k \in EditFields |-> << <<"y">> >>] }

\* No PUT has been answered; the answer of a handler: its route (for
\* .../estado the version of the handler) and the status it sent
NoAnswer == [route |-> "", status |-> 0]
Answer(route, n) == [route |-> route, status |-> n]

\* server.js:437-438  value || null: <<>> for null, <<text>> otherwise
OrNull(v) == IF v = <<>> \/ v[1] = <<>> THEN <<>> ELSE v

\* An UPDATE that stores every parameter, null included.
Overwrite(r, params) ==
  [k \in DOMAIN r |->
     IF k \notin EditFields THEN r[k]
     ELSE IF k \in NullableColumns THEN params[k]
     ELSE IF params[k] = <<>> THEN <<>> ELSE params[k][1]]
\* server.js:427-436  SET column = COALESCE($n, column) on one row
Coalesce(r, params) ==
  [k \in DOMAIN r |->
     IF k \notin EditFields \/ params[k] = <<>> THEN r[k]
     ELSE IF k \in NullableColumns THEN params[k] ELSE params[k][1]]

\* server.js:422-450  PUT /api/candidatos/:id: one UPDATE, then 404 when it
\* touched no row, 200 otherwise, 500 when the statement failed
PutCandidato(id, body) ==
  /\ pool > 0
  /\ \E ok \in BOOLEAN :
       LET params == [k \in EditFields |-> OrNull(body[k])]
       IN  IF ~ok
           THEN edit' = Answer("candidato", 500) /\ candidatos' = candidatos
           ELSE /\ candidatos' = {IF r.id = id THEN Coalesce(r, params) ELSE r : r \in candidatos}
                /\ edit' = Answer("candidato",
                                  IF \E r \in candidatos : r.id = id THEN 200 ELSE 404)
  /\ UNCHANGED <<candSeq, candidato_documentos, cloudinary, cand, pool,
                 taxVars, listVars, siteVars, docVars>>

\* server.js:462  UPDATE candidatos SET estado=$1 WHERE id=$2
SetEstado(rows, id, estado) ==
  {IF r.id = id THEN [r EXCEPT !.estado = estado] ELSE r : r \in rows}

\* server.js:204-212, 455-469 (candidatos.controller.js:196-210)  PUT
\* /api/candidatos/:id/estado with a JSON body: the middleware rewrites the
\* estado, the handler of the version answers 400 to a value outside its
\* enum, else runs the UPDATE and answers as PUT /api/candidatos/:id does
PutEstado(version, id, sent) ==
  /\ pool > 0
  /\ \E ok \in BOOLEAN :
       LET estado == NormalizedEstado[sent]
       IN  IF estado = <<>> \/ estado[1] \notin EstadoEnum[version]
           THEN edit' = Answer(version, 400) /\ candidatos' = candidatos
           ELSE IF ~ok
           THEN edit' = Answer(version, 500) /\ candidatos' = candidatos
           ELSE /\ candidatos' = SetEstado(candidatos, id, estado[1])
                /\ edit' = Answer(version,
                                  IF \E r \in candidatos : r.id = id THEN 200 ELSE 404)
  /\ UNCHANGED <<candSeq, candidato_documentos, cloudinary, cand, pool,
                 taxVars, listVars, siteVars, docVars>>

\* The editing requests in any order, with one POST /api/candidatos
NextEdit ==
  \/ \E id \in EditIds, body \in EditBodies : PutCandidato(id, body)
  \/ \E version \in DOMAIN EstadoEnum, id \in EditIds, sent \in EstadoInputs :
       PutEstado(version, id, sent)
  \/ CandConnect(1) \/ CandValidate(1) \/ CandStep(1, BOOLEAN)

\* ------------------------------ GET /api/empleados, GET /api/empleados/:id
\* candidatos.controller.js:922-931, 973-981  the categories of which the
\* index keeps the first document
FirstKept == {"certificados", "capacitacion"}
\* candidatos.controller.js:939-943  the categories the listing reports
DocTipos == {"dni", "certificados", "antecedentes", "medicos", "capacitacion"}
\* The ids of the employees stored when the requests arrive, and the ids of
\* the URL: those and the id of the employee a POST adds
EmpleadoIds == {1, 2}
EmpleadoIdInputs == EmpleadoIds \cup {3}
\* A row of table empleados.  The column fecha is given by the schema, which
\* is not in the source, and no route writes it: the model takes the rows to
\* have one fecha, so that ORDER BY fecha DESC, id DESC is the order of the
\* ids.
EmpleadoRow(id, nombre, sede, grupo) ==
  [id |-> id, nombre |-> nombre, sede |-> sede, grupo |-> grupo]
\* The employees stored when the requests arrive
EmpleadosSample == {EmpleadoRow(id, <<"a">>, <<"s">>, <<"1">>) : id \in EmpleadoIds}
\* The rows table documentos may hold, and the results of a query on it of at
\* most MaxDocs rows; without ORDER BY the rows come in any order
DocUrls == {"u1", "u2"}
DocumentoRows == [empleado_id : EmpleadoIds, tipo : DocTipos, url : DocUrls]
DocumentoResults == UNION {[1..n -> DocumentoRows] : n \in 0..MaxDocs}

\* WHERE empleado_id = $1 (= ANY($1)): the rows of the ids, in the order of
\* the result
RECURSIVE DocsOf(_, _)
DocsOf(rows, ids) ==
  IF rows = <<>> THEN <<>>
  ELSE (IF rows[1].empleado_id \in ids THEN <<rows[1]>> ELSE <<>>) \o DocsOf(Tail(rows), ids)

\* candidatos.controller.js:922-931, 973-981  the loop over docsRes.rows,
\* after its first n rows: per employee and category <<>> for no entry and
\* <<url>> for the url kept.  An entry of certificados or capacitacion is
\* written once; an entry of another category is written by every row.
RECURSIVE docsMap(_, _)
docsMap(rows, n) ==
  IF n = 0 THEN [e \in 1..MaxEmpleadoId |-> [t \in DocTipos |-> <<>>]]
  ELSE LET m == docsMap(rows, n - 1)
           d == rows[n]
       IN  IF d.tipo \in FirstKept /\ m[d.empleado_id][d.tipo] # <<>> THEN m
           ELSE [m EXCEPT ![d.empleado_id][d.tipo] = <<d.url>>]

\* candidatos.controller.js:903-908  ORDER BY fecha DESC, id DESC
RECURSIVE ByIdDesc(_)
ByIdDesc(rows) ==
  IF rows = {} THEN <<>>
  ELSE LET top == CHOOSE r \in rows : \A o \in rows : o.id <= r.id
       IN  <<top>> \o ByIdDesc(rows \ {top})

\* candidatos.controller.js:934-945, 983-990  the object of an employee in an
\* answer: its columns and, per category, the url reported (<<>> for null or
\* no key)
EmpleadoObject(e, urls) ==
  [id |-> e.id, nombre |-> e.nombre, sede |-> e.sede, grupo |-> e.grupo, urls |-> urls]

\* candidatos.controller.js:934-945  empleados.map(...)
RECURSIVE Merge(_, _)
Merge(rows, m) ==
  IF rows = <<>> THEN <<>>
  ELSE <<EmpleadoObject(rows[1], m[rows[1].id])>> \o Merge(Tail(rows), m)

\* The fields of the body of POST /api/empleados and PUT /api/empleados/:id:
\* left out, empty, or a text
EmpleadoBodies ==
  [nombre : {<<>>, << <<>> >>, << <<"b">> >>}, sede : {<<>>, << <<"t">> >>},
   grupo : {<<>>, << <<"2">> >>}]

\* A handler before its request arrives
EmpIdle ==
  [pc |-> "idle", route |-> "", id |-> NULL, rows |-> <<>>, body |-> <<>>,
   status |-> 0, sent |-> <<>>]
\* res.json(...) or res.status(n).json(...)
EmpRespond(h, n, body) ==
  [EmpIdle EXCEPT !.pc = "done", !.route = h.route, !.id = h.id, !.status = n,
                  !.sent = body]
\* The next request is taken by the first handler that is free.
EmpArrives(p) ==
  /\ pool > 0
  /\ empleado[p].pc = "idle"
  /\ \A q \in 1..(p - 1) : empleado[q].pc # "idle"

\* candidatos.controller.js:872-911  GET /api/empleados without filters, up
\* to the answer of the first query: 500 when it fails, [] when no employee
\* is stored, else the second query is sent
GetEmpleados(p) ==
  /\ EmpArrives(p)
  /\ \E ok \in BOOLEAN :
       LET h == [empleado[p] EXCEPT !.route = "empleados"]
       IN  empleado' = [empleado EXCEPT ![p] =
             IF ~ok THEN EmpRespond(h, 500, <<>>)
             ELSE IF empleados = {} THEN EmpRespond(h, 200, <<>>)
             ELSE [h EXCEPT !.pc = "docs", !.rows = ByIdDesc(empleados)]]
  /\ UNCHANGED <<documentos, empleados, empleadosSeq, pool, taxVars, candVars, listVars,
                 siteVars, editVars>>

\* candidatos.controller.js:913-951  the second query of GET /api/empleados
\* answered: the documents of the employees of the first query, and per
\* employee the url of each category (docsMap[e.id]?.dni || null); 500 when
\* it fails
GetEmpleadosDocs(p) ==
  /\ empleado[p].pc = "docs" /\ empleado[p].route = "empleados"
  /\ \E ok \in BOOLEAN :
       LET h == empleado[p]
           docsRes == DocsOf(documentos, {h.rows[i].id : i \in DOMAIN h.rows})
       IN  empleado' = [empleado EXCEPT ![p] =
             IF ~ok THEN EmpRespond(h, 500, <<>>)
             ELSE EmpRespond(h, 200, Merge(h.rows, docsMap(docsRes, Len(docsRes))))]
  /\ UNCHANGED <<documentos, empleados, empleadosSeq, pool, taxVars, candVars, listVars,
                 siteVars, editVars>>

\* candidatos.controller.js:957-966  GET /api/empleados/:id up to the answer
\* of the first query: 500 when it fails, 404 without a row of the id, else
\* the second query is sent
GetEmpleado(p) ==
  /\ EmpArrives(p)
  /\ \E id \in EmpleadoIdInputs, ok \in BOOLEAN :
       LET h == [empleado[p] EXCEPT !.route = "empleado", !.id = id]
           found == {r \in empleados : r.id = id}
       IN  empleado' = [empleado EXCEPT ![p] =
             IF ~ok THEN EmpRespond(h, 500, <<>>)
             ELSE IF found = {} THEN EmpRespond(h, 404, <<>>)
             ELSE [h EXCEPT !.pc = "docs", !.rows = ByIdDesc(found)]]
  /\ UNCHANGED <<documentos, empleados, empleadosSeq, pool, taxVars, candVars, listVars,
                 siteVars, editVars>>

\* candidatos.controller.js:968-994  the second query of GET
\* /api/empleados/:id answered: the employee with the url of each category
\* that has one (...docs); 500 when it fails
GetEmpleadoDocs(p) ==
  /\ empleado[p].pc = "docs" /\ empleado[p].route = "empleado"
  /\ \E ok \in BOOLEAN :
       LET h == empleado[p]
           docsRes == DocsOf(documentos, {h.id})
       IN  empleado' = [empleado EXCEPT ![p] =
             IF ~ok THEN EmpRespond(h, 500, <<>>)
             ELSE EmpRespond(h, 200, Merge(h.rows, docsMap(docsRes, Len(docsRes))))]
  /\ UNCHANGED <<documentos, empleados, empleadosSeq, pool, taxVars, candVars, listVars,
                 siteVars, editVars>>

\* candidatos.controller.js:1001-1026  POST /api/empleados: 400 when a field
\* is missing or empty, else one INSERT, whose id is the answer; 500 when it
\* fails
PostEmpleado(p) ==
  /\ EmpArrives(p)
  /\ empleadosSeq < MaxEmpleadoId
  /\ \E b \in EmpleadoBodies, ok \in BOOLEAN :
       LET h == [empleado[p] EXCEPT !.route = "post"]
           nuevoId == empleadosSeq + 1
       IN  IF ~Truthy(b.nombre) \/ ~Truthy(b.sede) \/ ~Truthy(b.grupo)
           THEN /\ empleado' = [empleado EXCEPT ![p] = EmpRespond(h, 400, <<>>)]
                /\ UNCHANGED <<empleados, empleadosSeq>>
           ELSE IF ~ok
           THEN /\ empleado' = [empleado EXCEPT ![p] = EmpRespond(h, 500, <<>>)]
                /\ UNCHANGED <<empleados, empleadosSeq>>
           ELSE /\ empleado' = [empleado EXCEPT ![p] =
                                  EmpRespond([h EXCEPT !.id = nuevoId], 200, <<>>)]
                /\ empleadosSeq' = nuevoId
                /\ empleados' = empleados
                     \cup {EmpleadoRow(nuevoId, b.nombre[1], b.sede[1], b.grupo[1])}
  /\ UNCHANGED <<documentos, pool, taxVars, candVars, listVars, siteVars, editVars>>

\* candidatos.controller.js:1032-1038  PUT /api/empleados/:id up to the
\* answer of SELECT id FROM empleados WHERE id = $1: 500 when it fails, 404
\* without a row, else the UPDATE is sent
PutEmpleado(p) ==
  /\ EmpArrives(p)
  /\ \E id \in EmpleadoIdInputs, b \in EmpleadoBodies, ok \in BOOLEAN :
       LET h == [empleado[p] EXCEPT !.route = "put", !.id = id]
       IN  empleado' = [empleado EXCEPT ![p] =
             IF ~ok THEN EmpRespond(h, 500, <<>>)
             ELSE IF \A r \in empleados : r.id # id THEN EmpRespond(h, 404, <<>>)
             ELSE [h EXCEPT !.pc = "update", !.body = <<b>>]]
  /\ UNCHANGED <<documentos, empleados, empleadosSeq, pool, taxVars, candVars, listVars,
                 siteVars, editVars>>

\* candidatos.controller.js:1040-1046  UPDATE empleados SET nombre =
\* COALESCE($1, nombre), ... WHERE id = $4 with nombre || null, ...: the rows
\* after it
UpdateEmpleado(rows, id, b) ==
  { IF r.id = id
    THEN [r EXCEPT !.nombre = IF Truthy(b.nombre) THEN b.nombre[1] ELSE @,
                   !.sede = IF Truthy(b.sede) THEN b.sede[1] ELSE @,
                   !.grupo = IF Truthy(b.grupo) THEN b.grupo[1] ELSE @]
    ELSE r : r \in rows }

\* candidatos.controller.js:1040-1053  the UPDATE of PUT /api/empleados/:id
\* answered: 200, or 500 when it fails
PutEmpleadoUpdate(p) ==
  /\ empleado[p].pc = "update"
  /\ \E ok \in BOOLEAN :
       LET h == empleado[p]
       IN  IF ~ok
           THEN /\ empleado' = [empleado EXCEPT ![p] = EmpRespond(h, 500, <<>>)]
                /\ UNCHANGED empleados
           ELSE /\ empleado' = [empleado EXCEPT ![p] = EmpRespond(h, 200, <<>>)]
                /\ empleados' = UpdateEmpleado(empleados, h.id, h.body[1])
  /\ UNCHANGED <<documentos, empleadosSeq, pool, taxVars, candVars, listVars, siteVars,
                 editVars>>

NextDocs ==
  \E p \in 1..EmpReqs :
    \/ GetEmpleados(p) \/ GetEmpleadosDocs(p)
    \/ GetEmpleado(p) \/ GetEmpleadoDocs(p)
    \/ PostEmpleado(p)
    \/ PutEmpleado(p) \/ PutEmpleadoUpdate(p)

vars == <<employers, employersSeq, eth, ethSeq, pool, tax,
          candidatos, candSeq, candidato_documentos, cloudinary, cand,
          vw_api_candidatos, query, list,
          tables, tableSeq, codeUnique, site, edit,
          documentos, empleados, empleadosSeq, empleado>>

Init ==
  /\ employers = {}
  /\ employersSeq = 0
  /\ eth = {}
  /\ ethSeq = 0
  /\ pool = PoolSize
  /\ tax = [p \in AllReqs |-> TaxIdle]
  /\ candidatos = {}
  /\ candSeq = 0
  /\ candidato_documentos = {}
  /\ cloudinary = {}
  /\ cand = [p \in AllCands |-> CandIdle]
  /\ vw_api_candidatos = {}
  /\ query = NoQuery
  /\ list = NoList
  /\ tables = [sites |-> {}, projects |-> {}]
  /\ tableSeq = [sites |-> 0, projects |-> 0]
  /\ codeUnique = TRUE
  /\ site = [p \in 1..SiteReqs |-> SiteIdle]
  /\ edit = NoAnswer
  /\ documentos = <<>>
  /\ empleados = {}
  /\ empleadosSeq = 0
  /\ empleado = [p \in 1..EmpReqs |-> EmpIdle]

\* The history API with or without an employer registered before the
\* requests.
InitTax ==
  /\ employers \in {{}, {EmployerRow(1, <<"1">>, <<"A">>, NULL)}}
  /\ employersSeq = Cardinality(employers)
  /\ eth = {}
  /\ ethSeq = 0
  /\ pool = PoolSize
  /\ tax = [p \in AllReqs |-> TaxIdle]
  /\ candidatos = {}
  /\ candSeq = 0
  /\ candidato_documentos = {}
  /\ cloudinary = {}
  /\ cand = [p \in AllCands |-> CandIdle]
  /\ vw_api_candidatos = {}
  /\ query = NoQuery
  /\ list = NoList
  /\ tables = [sites |-> {}, projects |-> {}]
  /\ tableSeq = [sites |-> 0, projects |-> 0]
  /\ codeUnique = TRUE
  /\ site = [p \in 1..SiteReqs |-> SiteIdle]
  /\ edit = NoAnswer
  /\ documentos = <<>>
  /\ empleados = {}
  /\ empleadosSeq = 0
  /\ empleado = [p \in 1..EmpReqs |-> EmpIdle]

\* The requests of the history API, overlapping freely.
Next ==
  \E p \in 1..NumReqs : TaxConnect(p) \/ TaxStep(p)

Spec == InitTax /\ [][Next]_vars

\* No POST /api/employer/tax handler is running.
TaxQuiet == \A q \in AllReqs : tax[q].pc \in {"idle", "done", "rejected"}

\* The same requests with the POSTs of the history one after the other: a
\* POST arrives when no other is being handled.  Employers are registered
\* at any time.
NextSerial ==
  \/ PostEmployer
  \/ \E p \in 1..SerialReqs : (TaxQuiet /\ TaxConnect(p)) \/ TaxStep(p)

SpecSerial == InitTax /\ [][NextSerial]_vars

\* The listing: a view with some rows and one request with some query.
InitList ==
  /\ employers = {}
  /\ employersSeq = 0
  /\ eth = {}
  /\ ethSeq = 0
  /\ pool = PoolSize
  /\ tax = [p \in AllReqs |-> TaxIdle]
  /\ candidatos = {}
  /\ candSeq = 0
  /\ candidato_documentos = {}
  /\ cloudinary = {}
  /\ cand = [p \in AllCands |-> CandIdle]
  /\ vw_api_candidatos \in SUBSET ViewSample
  /\ query \in QueryInputs
  /\ list = NoList
  /\ tables = [sites |-> {}, projects |-> {}]
  /\ tableSeq = [sites |-> 0, projects |-> 0]
  /\ codeUnique = TRUE
  /\ site = [p \in 1..SiteReqs |-> SiteIdle]
  /\ edit = NoAnswer
  /\ documentos = <<>>
  /\ empleados = {}
  /\ empleadosSeq = 0
  /\ empleado = [p \in 1..EmpReqs |-> EmpIdle]

NextList == ListCandidatos

SpecList == InitList /\ [][NextList]_vars

\* The coded tables: sites with some rows, a schema with or without the
\* unique constraint on code, and the requests overlapping freely.
InitSites ==
  /\ employers = {}
  /\ employersSeq = 0
  /\ eth = {}
  /\ ethSeq = 0
  /\ pool = PoolSize
  /\ tax = [p \in AllReqs |-> TaxIdle]
  /\ candidatos = {}
  /\ candSeq = 0
  /\ candidato_documentos = {}
  /\ cloudinary = {}
  /\ cand = [p \in AllCands |-> CandIdle]
  /\ vw_api_candidatos = {}
  /\ query = NoQuery
  /\ list = NoList
  /\ \E rows \in SUBSET SitesSample : tables = [sites |-> rows, projects |-> {}]
  /\ tableSeq = [sites |-> Cardinality(SitesSample), projects |-> 0]
  /\ codeUnique \in BOOLEAN
  /\ site = [p \in 1..SiteReqs |-> SiteIdle]
  /\ edit = NoAnswer
  /\ documentos = <<>>
  /\ empleados = {}
  /\ empleadosSeq = 0
  /\ empleado = [p \in 1..EmpReqs |-> EmpIdle]

SpecSites == InitSites /\ [][NextSites]_vars

SpecSitesSerial == InitSites /\ [][NextSitesSerial]_vars

\* The editing of candidates: one candidate is stored at the start.
InitEdit ==
  /\ employers = {}
  /\ employersSeq = 0
  /\ eth = {}
  /\ ethSeq = 0
  /\ pool = PoolSize
  /\ tax = [p \in AllReqs |-> TaxIdle]
  /\ candidatos = {StoredCandidate}
  /\ candSeq = 1
  /\ candidato_documentos = {}
  /\ cloudinary = {}
  /\ cand = [p \in AllCands |-> CandIdle]
  /\ vw_api_candidatos = {}
  /\ query = NoQuery
  /\ list = NoList
  /\ tables = [sites |-> {}, projects |-> {}]
  /\ tableSeq = [sites |-> 0, projects |-> 0]
  /\ codeUnique = TRUE
  /\ site = [p \in 1..SiteReqs |-> SiteIdle]
  /\ edit = NoAnswer
  /\ documentos = <<>>
  /\ empleados = {}
  /\ empleadosSeq = 0
  /\ empleado = [p \in 1..EmpReqs |-> EmpIdle]

SpecEdit == InitEdit /\ [][NextEdit]_vars

\* The two handlers that check a client out, sharing the pool: the POSTs of
\* the history API one after the other, and one POST /api/candidatos that
\* overlaps them freely; every statement and upload may fail.
NextPool ==
  \/ \E p \in 1..NumReqs : (TaxQuiet /\ TaxConnect(p)) \/ TaxStep(p)
  \/ CandConnect(1) \/ CandValidate(1) \/ CandStep(1, BOOLEAN)

SpecPool == InitTax /\ [][NextPool]_vars

\* The employees' documents: a table with some rows, read by the two GETs.
InitDocs ==
  /\ employers = {}
  /\ employersSeq = 0
  /\ eth = {}
  /\ ethSeq = 0
  /\ pool = PoolSize
  /\ tax = [p \in AllReqs |-> TaxIdle]
  /\ candidatos = {}
  /\ candSeq = 0
  /\ candidato_documentos = {}
  /\ cloudinary = {}
  /\ cand = [p \in AllCands |-> CandIdle]
  /\ vw_api_candidatos = {}
  /\ query = NoQuery
  /\ list = NoList
  /\ tables = [sites |-> {}, projects |-> {}]
  /\ tableSeq = [sites |-> 0, projects |-> 0]
  /\ codeUnique = TRUE
  /\ site = [p \in 1..SiteReqs |-> SiteIdle]
  /\ edit = NoAnswer
  /\ \/ empleados = {} /\ documentos = <<>>
     \/ empleados = EmpleadosSample /\ documentos \in DocumentoResults
  /\ empleadosSeq = Cardinality(empleados)
  /\ empleado = [p \in 1..EmpReqs |-> EmpIdle]

SpecDocs == InitDocs /\ [][NextDocs]_vars

\* The history API on a pool with no more connections than there are
\* requests.
InitSmallPool ==
  /\ employers \in {{}, {EmployerRow(1, <<"1">>, <<"A">>, NULL)}}
  /\ employersSeq = Cardinality(employers)
  /\ eth = {}
  /\ ethSeq = 0
  /\ pool \in 1..NumReqs
  /\ tax = [p \in AllReqs |-> TaxIdle]
  /\ candidatos = {}
  /\ candSeq = 0
  /\ candidato_documentos = {}
  /\ cloudinary = {}
  /\ cand = [p \in AllCands |-> CandIdle]
  /\ vw_api_candidatos = {}
  /\ query = NoQuery
  /\ list = NoList
  /\ tables = [sites |-> {}, projects |-> {}]
  /\ tableSeq = [sites |-> 0, projects |-> 0]
  /\ codeUnique = TRUE
  /\ site = [p \in 1..SiteReqs |-> SiteIdle]
  /\ edit = NoAnswer
  /\ documentos = <<>>
  /\ empleados = {}
  /\ empleadosSeq = 0
  /\ empleado = [p \in 1..EmpReqs |-> EmpIdle]

SpecSmallPool == InitSmallPool /\ [][Next]_vars

\* The history API of an installation with two employers, the second of
\* which has a closed and an open period in the table; the first has a
\* closed one.
HistorySample ==
  { [id |-> 1, employer_id |-> 2, regime_id |-> 3, valid_from |-> 1, valid_to |-> 1],
    [id |-> 2, employer_id |-> 2, regime_id |-> 3, valid_from |-> 2, valid_to |-> NULL],
    [id |-> 3, employer_id |-> 1, regime_id |-> 1, valid_from |-> 1, valid_to |-> 1] }
InitHistory ==
  /\ employers = {EmployerRow(1, <<"1">>, <<"A">>, NULL), EmployerRow(2, <<"2">>, <<"A">>, NULL)}
  /\ employersSeq = 2
  /\ eth = HistorySample
  /\ ethSeq = Cardinality(HistorySample)
  /\ pool = PoolSize
  /\ tax = [p \in AllReqs |-> TaxIdle]
  /\ candidatos = {}
  /\ candSeq = 0
  /\ candidato_documentos = {}
  /\ cloudinary = {}
  /\ cand = [p \in AllCands |-> CandIdle]
  /\ vw_api_candidatos = {}
  /\ query = NoQuery
  /\ list = NoList
  /\ tables = [sites |-> {}, projects |-> {}]
  /\ tableSeq = [sites |-> 0, projects |-> 0]
  /\ codeUnique = TRUE
  /\ site = [p \in 1..SiteReqs |-> SiteIdle]
  /\ edit = NoAnswer
  /\ documentos = <<>>
  /\ empleados = {}
  /\ empleadosSeq = 0
  /\ empleado = [p \in 1..EmpReqs |-> EmpIdle]

NextHistory == \E p \in 1..NumReqs : TaxConnect(p) \/ TaxStep(p)

SpecHistory == InitHistory /\ [][NextHistory]_vars

SpecCand == Init /\ [][NextCand]_vars
SpecCandSerial == Init /\ [][NextCandSerial]_vars

\* ------------------------------------------------------------------ claims
\* The requests that have arrived, and whether each has been answered 200.
Arrived == {p \in AllReqs : tax[p].pc # "idle"}
AllSucceeded == TaxQuiet /\ \A p \in Arrived : tax[p].status = 200
\* Each request named a later first day than the request before it.
IncreasingDates ==
  \A p, q \in Arrived : p < q => tax[p].body[1].valid_from < tax[q].body[1].valid_from

\* What C1 says of one answer of the history query after n requests.
ChainedHistory(h, n) ==
  /\ Len(h) = n
  /\ Cardinality({i \in DOMAIN h : h[i].valid_to = NULL}) = 1
  /\ h[1].valid_to = NULL
  /\ \A i \in DOMAIN h : h[i].valid_from <= h[1].valid_from
  /\ \A i \in 2..Len(h) : h[i].valid_to = h[i - 1].valid_from - 1

\* A request is about to send its UPDATE, which the server will refuse.
UpdateRefused(p) ==
  tax[p].pc = "update" /\ UpdatePrev(eth, tax[p].prev, tax[p].vf).error
\* A request is about to send its UPDATE, and the row it found open starts
\* before the day the request names.
LaterDate(p) ==
  tax[p].pc = "update" /\ \A r \in eth : r.id = tax[p].prev => r.valid_from < tax[p].vf

\* C1: from an empty history, after N successful POST /api/employer/tax
\* requests made one after the other with strictly increasing valid_from,
\* the history query returns exactly N rows, exactly one of them open, the
\* one of the latest valid_from, and every other row ends the day before the
\* next later row starts; a request of such a sequence that finds an open
\* row has its UPDATE accepted, and the UPDATE closes that row at the day
\* before the request's valid_from.
C1_SerialIncreasingHistory ==
  /\ (AllSucceeded /\ IncreasingDates /\ Arrived # {}) =>
        /\ \E r \in GetHistory : r.status = 200
        /\ \A r \in GetHistory :
             r.status = 200 => ChainedHistory(r.body, Cardinality(Arrived))
  /\ \A p \in AllReqs :
       LaterDate(p) =>
         /\ ~UpdateRefused(p)
         /\ UpdatePrev(eth, tax[p].prev, tax[p].vf).written
              = ClosedVersions(eth, tax[p].prev, tax[p].vf)

OpenRows(e) == {r \in eth : r.employer_id = e /\ r.valid_to = NULL}

\* C2: in every reachable state, also with the statements of overlapping
\* POST /api/employer/tax requests interleaved, at most one committed
\* history row of the employer is open.
C2_AtMostOneOpenRow == \A e \in employers : Cardinality(OpenRows(e.id)) <= 1

\* Two rows cover a common day: the later of their first days is within both.
Overlap(r1, r2) ==
  LET lo == IF r1.valid_from > r2.valid_from THEN r1.valid_from ELSE r2.valid_from
  IN  /\ (r1.valid_to = NULL \/ lo <= r1.valid_to)
      /\ (r2.valid_to = NULL \/ lo <= r2.valid_to)

\* C3: after any sequence of successful POST /api/employer/tax requests with
\* arbitrary valid_from dates, no two history rows of the employer cover a
\* common day.
C3_NoOverlap ==
  AllSucceeded =>
    \A r1, r2 \in eth :
      (r1.id # r2.id /\ r1.employer_id = r2.employer_id) => ~Overlap(r1, r2)

\* C4: a POST /api/employer/tax changes the committed history in one step,
\* its COMMIT, which adds its new row and leaves the row it selected as open
\* closed and every other row as it was; every other step of the request,
\* a failing statement and the ROLLBACK included, leaves the committed
\* history exactly as it was.
C4_Atomic ==
  [][\A p \in AllReqs :
       IF tax[p].pc = "commit" /\ tax'[p].pc = "readCurrent"
       THEN /\ \E r \in eth' \ eth : r.id = tax[p].ins /\ r.valid_to = NULL
            /\ \A r \in eth' : r.id = tax[p].prev => r.valid_to # NULL
            /\ \A r \in eth : r.id # tax[p].prev => r \in eth'
            /\ \A r \in eth' : r.id \notin {tax[p].prev, tax[p].ins} => r \in eth
       ELSE tax'[p] # tax[p] => eth' = eth]_vars

\* A request whose transaction has inserted its row has failed at COMMIT and
\* is about to roll back, while the row of another request is committed.
C4_Witness ==
  \E p \in AllReqs : tax[p].pc = "rollback" /\ tax[p].new # {} /\ eth # {}

RowsOf(rows, id) == {r \in rows : r.id = id}
DocumentsOf(documents, id) == {d \in documents : d.candidato_id = id}

\* C6: when the INSERT of the candidate, an upload, the bulk INSERT of the
\* documents or the COMMIT of a POST /api/candidatos has failed, the handler
\* ends with neither the candidate's row nor a document row of it committed,
\* and with the response 409 or 500.
C6_FailureLeavesNothing ==
  [][\A p \in AllCands :
       (/\ cand[p].pc = "rollback"
        /\ cand[p].new # {} \/ cand[p].code = "23505"
        /\ cand'[p].pc # "rollback")
       => /\ cand'[p].status \in {409, 500}
          /\ \A r \in cand[p].new :
               /\ RowsOf(candidatos', r.id) = {}
               /\ DocumentsOf(candidato_documentos', r.id) = {}]_vars

\* C7: with the requests one after the other, a POST /api/candidatos whose
\* dni is that of a stored candidate is answered 409 and one whose dni is
\* not stored is answered 200 with the id of the row it has stored; the two
\* tables change in no step but the COMMIT of a request answered 200.
C7_DuplicateDni ==
  [][/\ \A p \in AllCands :
          (cand[p].pc \in {"commit", "rollback"} /\ cand'[p].pc = "done")
          => IF \E r \in candidatos : r.dni = cand[p].body.dni
             THEN /\ cand'[p].status = 409
                  /\ candidatos' = candidatos
                  /\ candidato_documentos' = candidato_documentos
             ELSE /\ cand'[p].status = 200
                  /\ \E r \in candidatos' \ candidatos :
                       r.id = cand'[p].id /\ r.dni = cand[p].body.dni
     /\ (candidatos' # candidatos \/ candidato_documentos' # candidato_documentos)
        => \E p \in AllCands : cand[p].pc = "commit" /\ cand'[p].status = 200]_vars

\* A request was answered 409 and a later one 200.
C7_Witness ==
  \E p, q \in AllCands : p < q /\ cand[p].status = 409 /\ cand[q].status = 200

\* The number of documentos of a category in a response.
CountTipo(documents, t) == Cardinality({d \in documents : d.tipo = t})

\* C8: when a POST /api/candidatos is answered 200, GET /api/candidatos/{id}
\* for the id of the answer finds the candidate, with as many documentos of
\* each category as the request had files of it and with no other; and no
\* later step changes what the GET of a stored candidate returns.
C8_DocumentCounts ==
  [][/\ \A p \in AllCands :
          (cand[p].pc = "commit" /\ cand'[p].status = 200)
          => \A g \in GetCandidato(candidatos', candidato_documentos', cand'[p].id) :
               g.status # 500
               => /\ g.status = 200
                  /\ \A t \in Range(tipos) :
                       CountTipo(g.documentos, t) = Len(cand[p].files[t])
                  /\ Cardinality(g.documentos) = Len(Flatten(cand[p].files, Len(tipos)))
     /\ \A r \in candidatos :
          GetCandidato(candidatos', candidato_documentos', r.id)
            = GetCandidato(candidatos, candidato_documentos, r.id)]_vars

\* A stored candidate has two documentos of the category certificados, and
\* another has one of dni and one of cv.
C8_Witness ==
  /\ \E p \in AllCands :
       /\ cand[p].status = 200
       /\ CountTipo(DocumentsOf(candidato_documentos, cand[p].id), "certificados") = 2
  /\ \E p \in AllCands :
       /\ cand[p].status = 200
       /\ CountTipo(DocumentsOf(candidato_documentos, cand[p].id), "dni") = 1
       /\ CountTipo(DocumentsOf(candidato_documentos, cand[p].id), "cv") = 1

\* The required fields of POST /api/candidatos.
RequiredFields == {"dni", "apellido_paterno", "apellido_materno", "nombres"}

\* C9: a POST /api/candidatos with a required field left out or empty is
\* answered 400 in the step after the connection is acquired: no
\* transaction is begun, no row is written, no id is drawn, no file is
\* uploaded, and the connection is back in the pool.
C9_MissingField ==
  [][\A p \in AllCands :
       (/\ cand[p].pc = "validate"
        /\ \E k \in RequiredFields : cand[p].body[k] = <<>>
        /\ cand'[p] # cand[p])
       => /\ cand'[p].pc = "done"
          /\ cand'[p].status = 400
          /\ cand'[p].new = {} /\ cand'[p].newDocs = {}
          /\ candidatos' = candidatos
          /\ candidato_documentos' = candidato_documentos
          /\ candSeq' = candSeq
          /\ cloudinary' = cloudinary
          /\ pool' = pool + 1]_vars

\* A request was answered 400 while another request holds a connection.
C9_Witness ==
  \E p, q \in AllCands :
    cand[p].status = 400 /\ cand[q].pc \notin {"idle", "validate", "done", "rejected"}

\* C10: a GET /api/candidatos whose ano or mes is TODOS builds the
\* conditions and the parameters, and answers with the rows, of the same
\* request without that parameter.
C10_SentinelIsNoFilter ==
  list.status = 200 =>
    /\ query.ano = <<TODOS>> =>
         list = ServeList([query EXCEPT !.ano = <<>>], vw_api_candidatos, TRUE)
    /\ query.mes = <<TODOS>> =>
         list = ServeList([query EXCEPT !.mes = <<>>], vw_api_candidatos, TRUE)

\* A row is among the rows of an answer.
InRows(r, rows) == \E i \in DOMAIN rows : rows[i] = r

\* lo <= grupo <= hi for a grupo of digits; a number beyond 2^31 - 1 is
\* beyond every bound a request of the model carries.
WithinBounds(t, lo, hi) ==
  ~ExceedsInt(t) /\ lo <= DigitsValue(t) /\ DigitsValue(t) <= hi

\* C11: when GET /api/candidatos is served with grupoInicio and grupoFin
\* both whole numbers, a row of the view whose grupo is not a non-empty string of
\* digits is not in the answer, and the query is answered or fails as it
\* does without that row; a row whose grupo is such a string is in the
\* answer exactly when its value lies between the two bounds, both included,
\* and the row is in the answer of the same request without the two bounds.
C11_GroupRange ==
  (list # NoList /\ Truthy(query.grupoInicio) /\ Truthy(query.grupoFin))
  => LET lo == Number(normalizeQueryValue(query.grupoInicio[1]))
         hi == Number(normalizeQueryValue(query.grupoFin[1]))
         ranged == ServeList(query, vw_api_candidatos, TRUE)
         others == ServeList([query EXCEPT !.grupoInicio = <<>>, !.grupoFin = <<>>],
                             vw_api_candidatos, TRUE)
     IN  (IsInt4(lo) /\ IsInt4(hi))
         => \A r \in vw_api_candidatos :
              IF AllDigits(r.grupo)
              THEN InRows(r, ranged.rows)
                     <=> (WithinBounds(r.grupo, Int4Value(lo), Int4Value(hi))
                            /\ InRows(r, others.rows))
              ELSE /\ ~InRows(r, ranged.rows)
                   /\ ranged.status
                        = ServeList(query, vw_api_candidatos \ {r}, TRUE).status
                   /\ InRows(r, others.rows) \/ others.status # 200
                        \/ \E i \in DOMAIN others.where :
                             ~Holds(others.where[i], others.params, r)

\* C12: when generateUniqueCode returns, its code is the base code if no
\* row of the table has the base code, and else the base code with the
\* suffix -k of the smallest k >= 2 that no row has; no row of the table has
\* the code returned.  (The handlers never pass an empty base code.)
C12_UniqueCode ==
  [][\A p \in 1..SiteReqs :
       (site[p].pc = "probe" /\ site'[p].pc = "insert")
       => LET rows == tables[site[p].table]
              base == site[p].baseCode
              code == site'[p].code
          IN  /\ ~CodePresent(rows, code)
              /\ IF ~CodePresent(rows, base) THEN code = base
                 ELSE \E k \in 2..(Cardinality(rows) + 1) :
                        /\ code = base \o <<"-">> \o ToDigits(k)
                        /\ \A j \in 2..(k - 1) :
                             CodePresent(rows, base \o <<"-">> \o ToDigits(j))]_vars

\* With ALPHA and ALPHA-2 in the table, ALPHA-3 has been returned; nothing
\* was added to the table meanwhile.
C12_Witness ==
  \E p \in 1..SiteReqs :
    /\ site[p].pc = "insert" /\ site[p].table = "sites"
    /\ site[p].code = <<"A", "L", "P", "H", "A", "-", "3">>
    /\ tables.sites = {r \in SitesSample : r.id \in {1, 2}}

\* C17: when the INSERT of POST /api/sites or POST /api/projects is executed
\* and rejected with a uniqueness violation on code, the request is
\* answered 409.
C17_ConflictIs409 ==
  [][\A p \in 1..SiteReqs :
       (/\ site[p].pc = "insert" /\ site'[p].pc = "done"
        /\ tableSeq' # tableSeq
        /\ codeUnique /\ CodePresent(tables[site[p].table], site[p].code))
       => site'[p].status = 409]_vars

\* Two rows of a table with the same code.
SharedCode(rows) == \E r1, r2 \in rows : r1.id # r2.id /\ r1.code = r2.code

\* C18: with a unique constraint on code, no table ever has two rows of the
\* same code, and of two POST requests that end with the same code for the
\* same table at most one is answered 200.
C18_UniqueCodes ==
  codeUnique =>
    /\ \A t \in DOMAIN tables : ~SharedCode(tables[t])
    /\ \A p, q \in 1..SiteReqs :
         (/\ p # q /\ site[p].pc = "done" /\ site[q].pc = "done"
          /\ site[p].route = "POST" /\ site[q].route = "POST"
          /\ site[p].table = site[q].table /\ site[p].code = site[q].code)
         => ~(site[p].status = 200 /\ site[q].status = 200)

\* C18, as the code has it: with a unique constraint on code, no table ever
\* has two rows of the same code, and an INSERT whose code a row of the
\* table has at that moment is not answered 200 and stores nothing.  (The
\* row of the first of two racing requests may have been deleted before the
\* INSERT of the second, which then succeeds too.)
C18_UniqueWhilePresent ==
  /\ [](codeUnique => \A t \in DOMAIN tables : ~SharedCode(tables[t]))
  /\ [][\A p \in 1..SiteReqs :
          (/\ site[p].pc = "insert" /\ site'[p].pc = "done"
           /\ codeUnique /\ CodePresent(tables[site[p].table], site[p].code))
          => site'[p].status # 200 /\ tables' = tables]_vars

\* With the constraint two POST /api/sites of the same name have ended with
\* the same code: one was answered 200 and its row is stored, the other was
\* refused.
C18_RaceLost ==
  /\ codeUnique
  /\ \E p, q \in 1..SiteReqs :
       /\ p # q /\ site[p].route = "POST" /\ site[q].route = "POST"
       /\ site[p].table = "sites" /\ site[q].table = "sites"
       /\ site[p].code = site[q].code
       /\ site[p].status = 200 /\ site[q].status = 500
       /\ CodePresent(tables.sites, site[p].code)
       /\ tableSeq.sites = Cardinality(SitesSample) + 2

\* Without the constraint two POST /api/sites of the same name, whose
\* probes both ended before either INSERT, have both been answered 200 with
\* the same code, and the table has two rows of that code.
C18_Witness ==
  /\ ~codeUnique
  /\ SharedCode(tables.sites)
  /\ \E p, q \in 1..SiteReqs :
       /\ p # q /\ site[p].status = 200 /\ site[q].status = 200
       /\ site[p].table = "sites" /\ site[q].table = "sites"
       /\ site[p].code = site[q].code

\* With the constraint two requests hold the same code for the same table,
\* both about to INSERT.
C18_RaceWithConstraint ==
  /\ codeUnique
  /\ \E p, q \in 1..SiteReqs :
       /\ p # q /\ site[p].pc = "insert" /\ site[q].pc = "insert"
       /\ site[p].table = site[q].table /\ site[p].code = site[q].code

\* A candidate of the id is stored.
Stored(id) == \E r \in candidatos : r.id = id

\* C13: a PUT /api/candidatos/{id}/estado that the handler of server.js
\* serves and the database answers is answered 200 when its estado is a
\* value of the handler's enum and the id is stored, and then the candidate
\* has that estado and no other row has changed; it is answered 404 for an
\* id not stored and 400 for an estado outside the enum, and then no row has
\* changed.
C13_EstadoEnum ==
  [][\A id \in EditIds, sent \in EstadoInputs :
       (edit'.route = "server" /\ edit'.status # 500 /\ PutEstado("server", id, sent))
       => IF sent # <<>> /\ sent[1] \in EstadoEnum.server
          THEN IF Stored(id)
               THEN /\ edit'.status = 200
                    /\ candidatos' =
                         {IF r.id = id THEN [r EXCEPT !.estado = sent[1]] ELSE r :
                            r \in candidatos}
               ELSE edit'.status = 404 /\ candidatos' = candidatos
          ELSE edit'.status = 400 /\ candidatos' = candidatos]_vars

\* C14: the estado of every stored candidate is a value of the enum (of
\* either version of the handler).
C14_EstadoInEnum ==
  \A r \in candidatos : r.estado \in EstadoEnum.server \cup EstadoEnum.controller

\* A field of the form sent with a text that is not empty.
Supplied(body, k) == body[k] # <<>> /\ body[k][1] # <<>>
\* The text of a column, <<>> standing for NULL in a column that may be NULL.
ColumnText(r, k) == IF k \in NullableColumns THEN r[k] ELSE <<r[k]>>

\* C15: a PUT /api/candidatos/{id} that the database answers is answered
\* 200 for a stored id, and then each of the seven fields has the text sent
\* if it was sent not empty and its previous value otherwise, id, dni and
\* fecha are as before, and every other candidate and every document row is
\* as before; for an id not stored it is answered 404 and nothing changes.
C15_PartialUpdate ==
  [][\A id \in EditIds, body \in EditBodies :
       (edit'.route = "candidato" /\ edit'.status # 500 /\ PutCandidato(id, body))
       => /\ candidato_documentos' = candidato_documentos
          /\ IF ~Stored(id) THEN edit'.status = 404 /\ candidatos' = candidatos
             ELSE /\ edit'.status = 200
                  /\ {r.id : r \in candidatos'} = {r.id : r \in candidatos}
                  /\ Cardinality(candidatos') = Cardinality(candidatos)
                  /\ \A r \in candidatos : r.id # id => r \in candidatos'
                  /\ \A r \in candidatos, u \in candidatos' :
                       (r.id = id /\ u.id = id)
                       => /\ u.dni = r.dni /\ u.fecha = r.fecha
                          /\ \A k \in EditFields :
                               IF Supplied(body, k)
                               THEN ColumnText(u, k) = body[k]
                               ELSE u[k] = r[k]]_vars

\* A request that sent nombres empty and sede with a text was answered 200:
\* the stored candidate has the sede and its first nombres.
C15_Witness ==
  /\ edit = Answer("candidato", 200)
  /\ \E r \in candidatos :
       r.id = 1 /\ r.sede = << <<"y">> >> /\ r.nombres = StoredCandidate.nombres
  /\ \E r \in candidatos : r.id = 2

\* The handlers of POST /api/employer/tax and POST /api/candidatos that hold
\* a client: entered and not yet returned.
Holding ==
  Cardinality({p \in AllReqs : tax[p].pc \notin {"idle", "done", "rejected"}})
    + Cardinality({p \in AllCands : cand[p].pc \notin {"idle", "done", "rejected"}})

\* C16: the connections missing from the pool are those of the handlers of
\* POST /api/candidatos and POST /api/employer/tax still running: a handler
\* that has returned (with a success, an early 400, an error answer, or a
\* rejection after a failing ROLLBACK) has given its connection back, once.
C16_ReleasedOnce == pool = PoolSize - Holding

\* Three handlers have returned: one with a success, one after a failing
\* ROLLBACK and one after an early validation answer.
C16_Witness ==
  /\ tax[1].pc = "done" /\ tax[1].status = 200
  /\ tax[2].pc = "rejected"
  /\ cand[1].pc = "done" /\ cand[1].status = 400
  /\ pool = PoolSize

\* The order of the categories, and the number of files a request brings in
\* the first n of them.
CategoryOrder == <<"dni", "certificados", "antecedentes", "medicos", "capacitacion", "cv">>
RECURSIVE FilesBefore(_, _)
FilesBefore(files, n) ==
  IF n = 0 THEN 0 ELSE FilesBefore(files, n - 1) + Len(files[CategoryOrder[n]])

\* The object the k-th upload of a request stores: the file that is k-th when
\* the files are counted category by category in CategoryOrder and in file
\* order within a category, under candidatos/<dni>/<category>.
KthObject(c, k) ==
  LET n == CHOOSE m \in DOMAIN CategoryOrder :
             FilesBefore(c.files, m - 1) < k /\ k <= FilesBefore(c.files, m)
      t == CategoryOrder[n]
  IN  [tipo |-> t,
       url  |-> [folder |-> <<"candidatos", c.body.dni, t>>,
                 public_id |-> PublicId(c.files[t][k - FilesBefore(c.files, n - 1)])]]

\* The objects of the storage that are in a folder of candidatos.
CandidateObjects(store) == {o \in store : o.folder # <<>>}

\* C19: POST /api/candidatos uploads one file per step, the k-th upload
\* being the k-th file in category order and in file order within a
\* category, and only while the transaction holds the inserted candidate;
\* nothing but such an upload changes the objects of the candidates and no
\* object is ever removed from the storage.  When an upload fails the objects of the earlier uploads
\* are in the storage and stay there, the request goes to its ROLLBACK,
\* commits no row, answers no success and uploads nothing more.
C19_UploadOrder ==
  [][/\ cloudinary \subseteq cloudinary'
     /\ CandidateObjects(cloudinary') # CandidateObjects(cloudinary)
          => \E p \in AllCands : cand[p].pc = "upload" /\ cand'[p] # cand[p]
     /\ \A p \in AllCands :
          /\ (cand[p].pc = "upload" /\ cand'[p] # cand[p])
               => LET k == Len(cand[p].inserts) + 1
                      object == KthObject(cand[p], k)
                  IN  /\ cand[p].new # {}
                      /\ \A i \in 1..(k - 1) :
                           /\ cand[p].inserts[i] = KthObject(cand[p], i)
                           /\ cand[p].inserts[i].url \in cloudinary'
                      /\ \/ /\ cloudinary' = cloudinary \cup {object.url}
                            /\ cand'[p].inserts = Append(cand[p].inserts, object)
                            /\ cand'[p].pc \in {"upload", "insertDocs"}
                         \/ /\ cloudinary' = cloudinary
                            /\ cand'[p].pc = "rollback"
          /\ (cand[p].pc = "rollback" /\ cand'[p] # cand[p])
               => /\ cand'[p].pc \in {"done", "rejected"}
                  /\ cand'[p].status # 200
                  /\ candidatos' = candidatos
                  /\ candidato_documentos' = candidato_documentos
          /\ cand[p].pc \in {"done", "rejected"} => cand'[p] = cand[p]]_vars

\* The second upload of a request has failed: the request, the only one that
\* has arrived, holds its inserted candidate and waits for its ROLLBACK, and
\* the storage holds the object of its first upload (a request of the model
\* that brings files brings two).
C19_Witness ==
  /\ cand[1].pc = "rollback" /\ cand[1].new # {}
  /\ cand[2].pc = "idle"
  /\ Cardinality(CandidateObjects(cloudinary)) = 1
  /\ candidatos = {} /\ candidato_documentos = {}

\* C20: a POST /api/candidatos gets the answer 200 only in the step in which
\* its COMMIT succeeds: the id of the answer is the id of the candidate the
\* transaction inserted, and after the step the candidate's row and one
\* document row per file of the request are committed.  A request that has
\* entered its catch block, whose transaction is rolled back, is never
\* answered 200, and every candidate named by a 200 is committed.
C20_SuccessAfterCommit ==
  /\ [][\A p \in AllCands :
          /\ (cand'[p].status = 200 /\ cand[p].status # 200)
               => /\ cand[p].pc = "commit"
                  /\ cand[p].new # {}
                  /\ cand[p].new \subseteq candidatos'
                  /\ \A r \in cand[p].new : r.id = cand'[p].id
                  /\ cand[p].newDocs \subseteq candidato_documentos'
                  /\ Cardinality(DocumentsOf(candidato_documentos', cand'[p].id))
                       = Len(Flatten(cand[p].files, Len(tipos)))
          /\ cand[p].pc = "rollback" => cand'[p].status # 200]_vars
  /\ [](\A p \in AllCands :
          cand[p].status = 200 => RowsOf(candidatos, cand[p].id) # {})

\* One request was answered 200 for a candidate committed with its two
\* documents, and another, rolled back after its candidate was inserted, was
\* answered 500 and has left no row.
C20_Witness ==
  \E p, q \in AllCands :
    /\ cand[p].status = 200
    /\ RowsOf(candidatos, cand[p].id) # {}
    /\ Cardinality(DocumentsOf(candidato_documentos, cand[p].id)) = 2
    /\ cand[q].status = 500
    /\ Cardinality(candidatos) = 1 /\ candSeq = 2

\* C21: a POST /api/employer/tax that is answered 200 is answered with the
\* row its own INSERT wrote: the row of the id the INSERT returned, which no
\* committed row had; its regime is the one the request named in
\* regime_code, it starts on the valid_from the request supplied, or on the
\* date of the server's clock when the request supplied none, and it is
\* open.  Other requests may run between any two of its statements.
C21_RespondsInsertedRow ==
  [][\A p \in AllReqs :
       /\ (tax[p].pc = "insert" /\ tax'[p].pc = "commit")
            => /\ \A r \in eth : r.id # tax'[p].ins
               /\ \A q \in AllReqs \ {p} : tax[q].ins # tax'[p].ins
       /\ (tax[p].pc = "readCurrent" /\ tax'[p].status = 200)
            => LET row == tax'[p].body[1]
                   req == tax'[p].sent
               IN  /\ row.id = tax[p].ins
                   /\ row.code = req.regime_code
                   /\ row.valid_from = IF req.valid_from # NULL THEN req.valid_from
                                       ELSE req.today
                   /\ row.valid_to = NULL]_vars

\* The url of the first document of an employee and a category in the order
\* the rows were returned: <<>> when there is none.
FirstUrl(rows, e, t) ==
  LET at == {i \in DOMAIN rows : rows[i].empleado_id = e /\ rows[i].tipo = t}
  IN  IF at = {} THEN <<>> ELSE <<rows[CHOOSE i \in at : \A j \in at : i <= j].url>>

\* C22: in a 200 answer of GET /api/empleados and of GET /api/empleados/{id}
\* the url reported for each category of an employee is that of the first
\* document of the category in the order the documents query returned them,
\* and no url when the employee has no document of the category.
C22_FirstDocumentWins ==
  \A p \in 1..EmpReqs :
    (/\ empleado[p].pc = "done" /\ empleado[p].status = 200
     /\ empleado[p].route \in {"empleados", "empleado"})
    => \A i \in DOMAIN empleado[p].sent, t \in DocTipos :
         empleado[p].sent[i].urls[t]
           = FirstUrl(documentos, empleado[p].sent[i].id, t)

\* The filters of a request as the client sent it, in the order of their
\* declaration: a year or a month other than TODOS, a non-empty estado, and
\* the group range when both of its bounds are non-empty.
FiltersSent(q) ==
  (IF q.ano # <<>> /\ q.ano[1] # TODOS THEN <<"year">> ELSE <<>>)
    \o (IF q.mes # <<>> /\ q.mes[1] # TODOS THEN <<"month">> ELSE <<>>)
    \o (IF Truthy(q.estado) THEN <<"estado">> ELSE <<>>)
    \o (IF Truthy(q.grupoInicio) /\ Truthy(q.grupoFin) THEN <<"grupo">> ELSE <<>>)

\* The values a filter binds, as the handler receives them.
ValuesSent(q, cond) ==
  CASE cond = "year"   -> <<NumberParam(Number(normalizeQueryValue(q.ano[1])))>>
    [] cond = "month"  -> <<NumberParam(Number(normalizeQueryValue(q.mes[1])))>>
    [] cond = "estado" -> <<StringParam(normalizeQueryValue(q.estado[1]))>>
    [] cond = "grupo"  -> <<NumberParam(Number(normalizeQueryValue(q.grupoInicio[1]))),
                            NumberParam(Number(normalizeQueryValue(q.grupoFin[1])))>>

\* The placeholders of the conditions, in the order of the conditions
RECURSIVE Placeholders(_)
Placeholders(where) ==
  IF where = <<>> THEN <<>>
  ELSE where[1].ph \o Placeholders(Tail(where))

\* The conditions of a served request are numbered $1..$n with n parameters.
ConsecutivePlaceholders ==
  list # NoList =>
    LET ph == Placeholders(list.where)
    IN  /\ \A k \in DOMAIN ph : ph[k] = k
        /\ Len(list.params) = Len(ph)

\* C23: the query GET /api/candidatos builds has one condition for each
\* filter the request carries, in the order year, month, estado, group
\* range; its placeholders are $1..$n in that order, its parameter list
\* has n entries, the entries of a condition's placeholders being the
\* values of its filter, and it has no condition exactly when the request
\* carries no filter.
C23_Placeholders ==
  list # NoList =>
    LET sent == FiltersSent(query)
    IN  /\ ConsecutivePlaceholders
        /\ Len(list.where) = Len(sent)
        /\ \A j \in DOMAIN list.where :
             /\ list.where[j].cond = sent[j]
             /\ [k \in DOMAIN list.where[j].ph |-> list.params[list.where[j].ph[k]]]
                  = ValuesSent(query, sent[j])
        /\ (list.where = <<>>) <=> (sent = <<>>)

\* A parameter of the query string supplied with a text that is not empty.
NonEmpty(v) == v # <<>> /\ Len(v[1]) > 0

\* C25: a GET /api/candidatos with exactly one of grupoInicio and grupoFin
\* supplied non-empty builds no group condition and no group parameter, and
\* what it builds and answers is what the same request builds and answers
\* with neither of the two.
C25_OneBoundIsNoRange ==
  (list # NoList /\ (NonEmpty(query.grupoInicio) # NonEmpty(query.grupoFin)))
  => /\ \A j \in DOMAIN list.where : list.where[j].cond # "grupo"
     /\ list = ServeList([query EXCEPT !.grupoInicio = <<>>, !.grupoFin = <<>>],
                         vw_api_candidatos, list.status = 200)

\* A request with grupoInicio=1 and an empty grupoFin, or with grupoFin=1
\* alone, was answered with a row of grupo 2.
C25_Witness ==
  /\ list.status = 200
  /\ \/ query.grupoInicio = << <<"1">> >> /\ query.grupoFin = << <<>> >>
     \/ query.grupoInicio = <<>> /\ query.grupoFin = << <<"1">> >>
  /\ \E k \in DOMAIN list.rows : list.rows[k].grupo = <<"2">>

\* C24: with the POST /api/employer/tax requests one after the other, when
\* a request is answered 200 the employer has exactly one open history row,
\* the row that request inserted; the COMMIT of a request made when the
\* employer has no open row adds one row and changes no row that was there;
\* and a request that finds an open row, whatever date it names, is not
\* turned down at its UPDATE.
C24_OneOpenRowAfterEach ==
  /\ [][\A p \in AllReqs :
         /\ (tax[p].pc = "readCurrent" /\ tax'[p].status = 200)
              => {r.id : r \in {x \in eth' : /\ x.valid_to = NULL
                                                /\ x.employer_id = getEmployerIdOrNull(employers)}}
                   = {tax[p].ins}
         /\ (tax[p].pc = "commit" /\ tax'[p].pc = "readCurrent"
               /\ OpenRows(getEmployerIdOrNull(employers)) = {})
              => /\ eth \subseteq eth'
                 /\ Cardinality(eth' \ eth) = 1]_vars
  /\ [](\A p \in AllReqs : ~UpdateRefused(p))

\* The handlers of POST /api/employer/tax that hold a client, and those of
\* them whose next statement goes through pool.query and so needs another
\* connection of the pool.
TaxHolders == {p \in AllReqs : tax[p].pc \notin {"idle", "done", "rejected"}}
TaxWaiters == {p \in TaxHolders : tax[p].pc \in {"getEmployer", "readCurrent"}}

\* C26: whatever the size of the pool and the number of overlapping POST
\* /api/employer/tax requests, the pool is never empty with every handler
\* that holds one of its connections waiting for another one.
C26_NoPoolDeadlock == ~(pool = 0 /\ TaxHolders # {} /\ TaxWaiters = TaxHolders)

\* C27: a POST /api/employer/tax that is answered 400 or 500 leaves the
\* committed history as it was before the request.  From the empty history:
\* when every request that has arrived has been answered 400 or 500, the
\* history is empty.
C27_ErrorLeavesHistory ==
  (\A p \in Arrived : tax[p].pc = "done" /\ tax[p].status \in {400, 500}) => eth = {}

\* C28: in every state the POST /api/employer/tax requests reach, whatever
\* dates they name, no closed history row ends before it starts.
C28_ClosedRowsOrdered ==
  \A r \in eth : r.valid_to # NULL => r.valid_from <= r.valid_to

\* The table holds closed rows; one request was answered 200 and its row is
\* the open row of the employer; another request, which names a day on or
\* before the first day of that row, has found it and sent its UPDATE.
C28_Witness ==
  /\ \E r \in eth : r.valid_to # NULL
  /\ \E p, q \in AllReqs :
       /\ tax[p].status = 200
       /\ tax[q].pc = "update" /\ ~LaterDate(q)
       /\ tax[q].prev = tax[p].body[1].id

\* C29: every POST /api/candidatos and POST /api/employer/tax that has
\* obtained its connection is answered, whichever statement fails, the
\* ROLLBACK of the catch block included: no handler of either route has
\* returned without having sent a response.
C29_EveryRequestAnswered ==
  /\ \A p \in AllReqs : tax[p].pc # "rejected"
  /\ \A p \in AllCands : cand[p].pc # "rejected"

\* The committed rows a step has changed or removed.
Touched == {r \in eth : r \notin eth'}

\* C30: a step of a POST /api/employer/tax removes no history row and
\* changes at most one, a row that was open and belongs to the employer of
\* the request, and of that row only valid_to: closed rows and the rows of
\* another employer stay as they are.
C30_Frame ==
  [][/\ \A r \in eth : \E n \in eth' : n.id = r.id
     /\ Cardinality(Touched) <= 1
     /\ \A r \in Touched :
          /\ r.valid_to = NULL
          /\ r.employer_id = getEmployerIdOrNull(employers)
          /\ [r EXCEPT !.valid_to = 0] \in {[n EXCEPT !.valid_to = 0] : n \in eth'}]_vars

\* A request was answered 200 with the row it inserted, when the table held
\* closed rows and the rows of the second employer: all of them are as they
\* were.
C30_Witness ==
  /\ \E p \in AllReqs : tax[p].status = 200
  /\ HistorySample \subseteq eth
  /\ Cardinality(eth) > Cardinality(HistorySample)
====
